---- MODULE Spec2Model ----
(***************************************************************************)
(* Model of the IndiCam Home Assistant integration: the sensor entity's   *)
(* update cycle (sensor.py) and the VerticalFloatProcessor it drives      *)
(* (indicator_processors.py).                                             *)
(*                                                                         *)
(* A task is one running invocation of IndiCamSensorEntity.async_update.  *)
(* Every action is the return of the call a task is suspended in (its pc  *)
(* names that call) followed by the code up to the next await, where the  *)
(* next call is issued.  calls[t] is the log of the service-client calls  *)
(* and sleeps of the task's current cycle, in issue order, each with its  *)
(* arguments and, once returned, its result.                              *)
(***************************************************************************)
EXTENDS Integers, Sequences, FiniteSets, TLC

\* ---------------------------------------------------------------- bounds
MaxIndicamId == 1
MaxImageId == 1
MaxValue == 2

\* ------------------------------------------------------------- constants
\* Optional values: Python's None is the empty tuple, a value x is <<x>>.
None == <<>>
Some(x) == <<x>>
Val(o) == o[1]

MEASUREMENT_PROCESS_DELAYS == <<1, 5, 25, 60, 90>>
FLASH_DELAY_SECONDS == 60
IMAGE_GET_RETRIES == 3

Tasks == {1, 2}
Devices == {"dev_a", "dev_b"}

\* Values the collaborators can hand back.
IndicamIds == 0..MaxIndicamId
ImageIds == 0..MaxImageId
\* Image bytes are only handed on, and the fields of a camera config only
\* compared for equality: two distinct values of each stand for all.
Images == {"jpeg_a", "jpeg_b"}
Percs == {0, 1}
CamConfig == [min_perc : Percs, max_perc : Percs]
\* GaugeMeasurement.value is a fraction of the gauge's range; it is counted
\* here in steps of 1/ValueUnits, so that 0 is empty and ValueUnits is full.
\* With steps of a third of a thousandth, value * 100 is never half-way
\* between two numbers of one decimal.
ValueUnits == 3000
\* The lowest values and the full gauge stand for the range.
Values == (0..MaxValue) \cup {ValueUnits}
GaugeMeasurement ==
    [body_left : {100}, body_right : {200}, body_top : {100},
     body_bottom : {500}, float_top : {300}, value : Values]

\* Comparison by identity instead of by value: the config built from the
\* service's answer is never the processor's own object.
CamConfigIs(a, b) == FALSE

\* Equality of two CamConfig dataclass instances: field by field.
CamConfigEq(a, b) == a.min_perc = b.min_perc /\ a.max_perc = b.max_perc

Optional(S) == {None} \cup {Some(x) : x \in S}

\* Python truthiness of an Optional[int]: None and 0 are falsy.
Falsy(o) == o = None \/ o = Some(0)

VARIABLES
    cam_config,          \* [Devices -> CamConfig]   VerticalFloatProcessor.cam_config
    updated_cam_config,  \* [Devices -> BOOLEAN]     VerticalFloatProcessor._updated_cam_config
    indicam_id,          \* [Devices -> Optional id] VerticalFloatProcessor._indicam_id
    last_result,         \* [Devices -> Optional measurement] IndiCamSensorEntity._last_result
    task_dev,            \* the running tasks and the device each one serves
    pc,                  \* [Tasks -> call the task is suspended in, or "idle"]
    image,               \* [Tasks -> Optional image of the cycle]
    image_id,            \* [Tasks -> image_id local of process_img]
    delay_idx,           \* [Tasks -> position of the for loop in MEASUREMENT_PROCESS_DELAYS]
    calls,               \* [Tasks -> log of the cycle's client calls and sleeps]
    cmp_cfg,             \* [Tasks -> self.cam_config as read by the task's latest comparison (line 197)]
    outcome,             \* [Tasks -> how the task's last cycle ended, "running" while in one]
    retry,               \* [Tasks -> the cycle before the current one ended in a failed push]
    ret,                 \* [Tasks -> Optional measurement returned by process_img]
    elapsed,             \* [Tasks -> elapsed time returned by process_img, None if it has not returned]
    logged,              \* [Tasks -> the _LOGGER.error message of process_img in the cycle, if any]
    prev_timeout,        \* [Tasks -> what process_img reported in the previous cycle, if it ran out of schedule]
    last_good            \* [Devices -> the latest usable measurement the service returned for the device]

\* What the processor and the sensor entity keep beside the cycle's own state.
report_vars == <<elapsed, logged, prev_timeout, last_good>>

\* ImageGrabber: its configuration and one invocation of grab_image per task.
VARIABLES
    camera_entity_id,    \* [Devices -> Optional entity id] ImageGrabber._camera_entity_id
    flash_entity_id,     \* [Devices -> Optional entity id] ImageGrabber._flash_entity_id
    gpc,                 \* [Tasks -> call grab_image is suspended in, "idle" or "returned"]
    wait_seconds,        \* [Tasks -> wait_seconds local of _turn_flash_on]
    flash_ret,           \* [Tasks -> what _turn_flash_on(True) returned, None if it has not]
    get_count,           \* [Tasks -> get_count local of grab_image]
    camera_image,        \* [Tasks -> camera_image local of grab_image]
    grab_log,            \* [Tasks -> log of the invocation's calls, state reads and sleeps]
    grabbed              \* [Tasks -> what grab_image returned]

grab_vars == <<camera_entity_id, flash_entity_id, gpc, wait_seconds, flash_ret,
               get_count, camera_image, grab_log, grabbed>>

\* VerticalFloatDecorator: its configuration, the output directory and the
\* files in it, and one invocation of decorate_and_save per task.
VARIABLES
    file_path,           \* [Devices -> Optional path] VerticalFloatDecorator._file_path
    dir_exists,          \* the directory file_path names exists
    files,               \* [Devices -> [FileKinds -> Optional content]] the files `<file_path>/<prefix>-<kind>.jpg`
    dpc,                 \* [Tasks -> call decorate_and_save is suspended in, "idle", "returned" or "raised"]
    target,              \* [Tasks -> the file the running save_image was given the path of]
    buffer,              \* [Tasks -> Optional content: the image argument of the running save_image]
    before,              \* [Tasks -> what the target file held when the running save_image was entered]
    exc,                 \* [Tasks -> Optional exception that left decorate_and_save]
    io_fault             \* [Tasks -> a file operation of the invocation failed with OSError]

deco_vars == <<file_path, dir_exists, files, dpc, target, buffer, before, exc,
               io_fault>>

\* The entity a device is set up with and what it fires on the event bus.
VARIABLES
    platform,            \* [Devices -> "sensor" (sensor.py) or "image_processing" (image_processing.py)]
    events               \* [Tasks -> the events the entity fired in the task's cycle]

entity_vars == <<platform, events>>

\* The state of the processor and of the sensor entity's cycle.
cycle_vars == <<cam_config, updated_cam_config, indicam_id, last_result,
                pc, image, image_id, delay_idx, calls, cmp_cfg, outcome, retry,
                ret, report_vars>>

vars == <<cam_config, updated_cam_config, indicam_id, last_result, task_dev,
          pc, image, image_id, delay_idx, calls, cmp_cfg, outcome, retry, ret,
          report_vars, grab_vars, deco_vars, entity_vars>>

\* ------------------------------------------------------------ call log
\* A call is logged when it is issued; done and res are set when it returns.
CallRec(op, arg) == [op |-> op, arg |-> arg, done |-> FALSE, res |-> None]

\* A synchronous read with result r.
ReadRec(op, arg, r) == [op |-> op, arg |-> arg, done |-> TRUE, res |-> r]

\* The log of task t with the result r of the call in flight filled in.
Returned(t, r) ==
    [calls[t] EXCEPT ![Len(calls[t])] = [@ EXCEPT !.done = TRUE, !.res = r]]

\* Indices of the log entries of operation op in log s.
CallsOf(s, op) == {i \in 1..Len(s) : s[i].op = op}
Count(s, op) == Cardinality(CallsOf(s, op))

device_name(d) == d

\* Seconds spent in the asyncio.sleep calls of log s: what time.monotonic()
\* advances by between line 155 and a return of process_img, the client
\* calls taken as instantaneous.
RECURSIVE Slept(_)
Slept(s) ==
    IF s = <<>> THEN 0
    ELSE (IF Head(s).op = "sleep" THEN Head(s).arg ELSE 0) + Slept(Tail(s))

\* Log s is that of a cycle whose upload succeeded and whose readiness checks
\* all came back not ready.
TimedOut(s) ==
    /\ \E u \in CallsOf(s, "upload_image") : s[u].done /\ ~Falsy(s[u].res)
    /\ CallsOf(s, "measurement_ready") # {}
    /\ \A i \in CallsOf(s, "measurement_ready") :
          s[i].done /\ s[i].res = Some(FALSE)

\* `not measurement or not measurement.value` of sensor.py line 172.
Unusable(m) == m = None \/ Val(m).value = 0

\* Rounding down instead of to the nearest.
round_1_floor(v) == (v * 100 * 10) \div ValueUnits

\* round(value * 100, 1) for the value v / ValueUnits, in tenths of a percent:
\* the multiple of 0.1 nearest to value * 100 (there are no ties, see
\* ValueUnits).
round_1(v) == (2 * v * 100 * 10 + ValueUnits) \div (2 * ValueUnits)

\* A sensor that shows 0 while it has no result.
native_value_zero(d) ==
    IF last_result[d] = None THEN Some(0)
    ELSE Some(round_1(Val(last_result[d]).value))

\* IndiCamSensorEntity.native_value, in tenths of a percent, and the
\* gauge_measurement attribute of extra_state_attributes.
native_value(d) ==
    IF last_result[d] = None THEN None
    ELSE Some(round_1(Val(last_result[d]).value))

extra_state_attributes(d) == [gauge_measurement |-> last_result[d]]

\* ---------------------------------------------------------------- Init
\* The configuration the processors are constructed with (percentages in
\* tenths): the CAM_CONFIG of the tests.
CAM_CONFIG == [max_perc |-> 1, min_perc |-> 1]

InitCommon ==
    /\ cam_config = [d \in Devices |-> CAM_CONFIG]
    /\ updated_cam_config = [d \in Devices |-> FALSE]
    /\ indicam_id = [d \in Devices |-> None]
    /\ last_result = [d \in Devices |-> None]
    /\ pc = [t \in Tasks |-> "idle"]
    /\ image = [t \in Tasks |-> None]
    /\ image_id = [t \in Tasks |-> None]
    /\ delay_idx = [t \in Tasks |-> 0]
    /\ calls = [t \in Tasks |-> <<>>]
    /\ cmp_cfg = [t \in Tasks |-> None]
    /\ outcome = [t \in Tasks |-> "none"]
    /\ retry = [t \in Tasks |-> FALSE]
    /\ ret = [t \in Tasks |-> None]
    /\ elapsed = [t \in Tasks |-> None]
    /\ logged = [t \in Tasks |-> None]
    /\ prev_timeout = [t \in Tasks |-> None]
    /\ last_good = [d \in Devices |-> None]

\* No invocation of grab_image under way.
InitGrabLocals ==
    /\ gpc = [t \in Tasks |-> "idle"]
    /\ wait_seconds = [t \in Tasks |-> 0]
    /\ flash_ret = [t \in Tasks |-> None]
    /\ get_count = [t \in Tasks |-> 0]
    /\ camera_image = [t \in Tasks |-> None]
    /\ grab_log = [t \in Tasks |-> <<>>]
    /\ grabbed = [t \in Tasks |-> None]

\* The files of a device.
FileKinds == {"snapshot", "measure"}
Paths == {"www"}

\* No file saved yet and no invocation of decorate_and_save under way.
InitDecoLocals ==
    /\ dir_exists = FALSE
    /\ files = [d \in Devices |-> [k \in FileKinds |-> None]]
    /\ dpc = [t \in Tasks |-> "idle"]
    /\ target = [t \in Tasks |-> "snapshot"]
    /\ buffer = [t \in Tasks |-> None]
    /\ before = [t \in Tasks |-> None]
    /\ exc = [t \in Tasks |-> None]
    /\ io_fault = [t \in Tasks |-> FALSE]

\* Sensor entities, nothing fired.
InitSensors ==
    /\ platform = [d \in Devices |-> "sensor"]
    /\ events = [t \in Tasks |-> <<>>]

\* The sensor platform as the tests set it up: a camera and no flash; the
\* component has an output path.
Init ==
    /\ InitCommon
    /\ InitSensors
    /\ file_path = [d \in Devices |-> Some("www")]
    /\ InitDecoLocals
    /\ task_dev = (1 :> "dev_a")
    /\ camera_entity_id = [d \in Devices |-> Some("camera.demo_camera")]
    /\ flash_entity_id = [d \in Devices |-> None]
    /\ InitGrabLocals

\* ------------------------------------------------- task-local bookkeeping
\* The task moves on: it is now suspended in newpc with log newlog.
Goto(t, newpc, newlog) ==
    /\ pc' = [pc EXCEPT ![t] = newpc]
    /\ calls' = [calls EXCEPT ![t] = newlog]

\* The cycle of task t ends with outcome oc: "no_image" (nothing captured),
\* "fetch_failed" / "push_failed" (HausNetServiceError of line 194 / 205
\* left async_update), "failed" (no usable measurement) or "ok".  m is what
\* process_img returned, None also when it never returned.
EndCycle(t, oc, m, newlog) ==
    /\ Goto(t, "idle", newlog)
    /\ outcome' = [outcome EXCEPT ![t] = oc]
    /\ ret' = [ret EXCEPT ![t] = m]

\* ------------------------------------------- IndiCamSensorEntity.async_update
\* The failed branch clearing the last result, as async_process_image of
\* image_processing.py (line 239) does.
AfterProcessImg_clearing(t, m, newlog) ==
    LET d == task_dev[t]
        failed == m = None \/ Val(m).value = 0
    IN  /\ elapsed' = [elapsed EXCEPT ![t] = Some(Slept(newlog))]
        /\ IF failed
           THEN /\ EndCycle(t, "failed", m, newlog)
                /\ last_result' = [last_result EXCEPT ![d] = None]
           ELSE /\ Goto(t, "decorate_and_save", newlog)
                /\ ret' = [ret EXCEPT ![t] = m]
                /\ last_result' = [last_result EXCEPT ![d] = m]
                /\ UNCHANGED outcome

\* process_img has returned (m, elapsed): the rest of async_update up to the
\* await of decorate_and_save.
AfterProcessImg(t, m, newlog) ==
    LET d == task_dev[t]
        failed == m = None \/ Val(m).value = 0
    IN  /\ elapsed' = [elapsed EXCEPT ![t] = Some(Slept(newlog))]
        /\ IF failed
           THEN /\ EndCycle(t, "failed", m, newlog)
                /\ UNCHANGED last_result
           ELSE /\ Goto(t, "decorate_and_save", newlog)
                /\ ret' = [ret EXCEPT ![t] = m]
                /\ last_result' = [last_result EXCEPT ![d] = m]
                /\ UNCHANGED outcome

\* --------------------------------------- VerticalFloatProcessor.process_img
\* The for loop running over all but the last entry of the schedule.
PollLoop_short(t, i, imgid, newlog) ==
    /\ delay_idx' = [delay_idx EXCEPT ![t] = i]
    /\ IF i > Len(MEASUREMENT_PROCESS_DELAYS) - 1
       THEN /\ AfterProcessImg(t, None, newlog)
            /\ logged' = [logged EXCEPT ![t] = Some("timed_out")]
       ELSE /\ Goto(t, "measurement_ready",
                    Append(newlog, CallRec("measurement_ready", imgid)))
            /\ UNCHANGED <<last_result, outcome, ret, elapsed, logged>>

\* The for loop over MEASUREMENT_PROCESS_DELAYS reaches its i-th iteration:
\* measurement_ready is awaited, or the loop is exhausted and process_img
\* returns (None, elapsed) after the error message of lines 170-173.
PollLoop(t, i, imgid, newlog) ==
    /\ delay_idx' = [delay_idx EXCEPT ![t] = i]
    /\ IF i > Len(MEASUREMENT_PROCESS_DELAYS)
       THEN /\ AfterProcessImg(t, None, newlog)
            /\ logged' = [logged EXCEPT ![t] = Some("timed_out")]
       ELSE /\ Goto(t, "measurement_ready",
                    Append(newlog, CallRec("measurement_ready", imgid)))
            /\ UNCHANGED <<last_result, outcome, ret, elapsed, logged>>

\* process_img uploading under a name of its own.
IssueUpload_renamed(t, img, newlog) ==
    Goto(t, "upload_image",
         Append(newlog, CallRec("upload_image", <<"indicam", img>>)))

\* The config sync is over (or was skipped): upload_image is awaited.
IssueUpload(t, img, newlog) ==
    Goto(t, "upload_image",
         Append(newlog, CallRec("upload_image",
                                <<device_name(task_dev[t]), img>>)))

\* --------------------------------- VerticalFloatProcessor._update_cam_config
IssueGetCamconfig(t, id, newlog) ==
    Goto(t, "get_camconfig", Append(newlog, CallRec("get_camconfig", id)))

IssueCreateCamconfig(t, id, newlog) ==
    Goto(t, "create_camconfig",
         Append(newlog, CallRec("create_camconfig",
                                <<id, cam_config[task_dev[t]]>>)))

\* _get_indicam_id found no cached id: the client's get_indicam_id is
\* awaited at call site `site` of _update_cam_config.
IssueGetIndicamId(t, site, newlog) ==
    Goto(t, site,
         Append(newlog, CallRec("get_indicam_id", device_name(task_dev[t]))))

\* The HausNetServiceError caught and logged, the cycle going on to the upload.
RaiseServiceError_swallowed(t, which, newlog) ==
    /\ IssueUpload(t, Val(image[t]), newlog)
    /\ UNCHANGED <<outcome, ret>>

\* _update_cam_config raises HausNetServiceError; neither process_img nor
\* async_update catches it, so the cycle ends with the exception.
RaiseServiceError(t, which, newlog) ==
    EndCycle(t, which, None, newlog)

\* process_img syncing on every cycle, whatever the flag says.
EnterProcessImg_always_sync(t, img, newlog) ==
    LET d == task_dev[t]
    IN  IF Falsy(indicam_id[d])
        THEN IssueGetIndicamId(t, "get_indicam_id_log", newlog)
        ELSE IssueGetCamconfig(t, indicam_id[d], newlog)

\* Entry of process_img with image img: the flag test of line 156 and, when
\* the flag is unset, _update_cam_config up to its first suspension.
EnterProcessImg(t, img, newlog) ==
    LET d == task_dev[t]
    IN  IF updated_cam_config[d]
        THEN IssueUpload(t, img, newlog)
        ELSE IF Falsy(indicam_id[d])
             THEN IssueGetIndicamId(t, "get_indicam_id_log", newlog)
             ELSE IssueGetCamconfig(t, indicam_id[d], newlog)

\* ================================================================ actions
\* The host starts an update cycle of the sensor entity: grab_image is awaited.
async_update(t) ==
    /\ t \in DOMAIN task_dev
    /\ UNCHANGED <<grab_vars, deco_vars, entity_vars>>
    /\ pc[t] = "idle"
    /\ Goto(t, "grab_image", <<>>)
    /\ image' = [image EXCEPT ![t] = None]
    /\ image_id' = [image_id EXCEPT ![t] = None]
    /\ delay_idx' = [delay_idx EXCEPT ![t] = 0]
    /\ ret' = [ret EXCEPT ![t] = None]
    /\ outcome' = [outcome EXCEPT ![t] = "running"]
    /\ retry' = [retry EXCEPT ![t] = (outcome[t] = "push_failed")]
    /\ elapsed' = [elapsed EXCEPT ![t] = None]
    /\ logged' = [logged EXCEPT ![t] = None]
    /\ prev_timeout' = [prev_timeout EXCEPT ![t] =
                            IF TimedOut(calls[t])
                            THEN Some(<<ret[t], logged[t]>>) ELSE None]
    /\ UNCHANGED <<cam_config, updated_cam_config, indicam_id, last_result,
                   task_dev, cmp_cfg, last_good>>

\* async_update going on to process_img with whatever grab_image returned.
grab_image_unchecked(t) ==
    /\ pc[t] = "grab_image"
    /\ UNCHANGED <<grab_vars, deco_vars, entity_vars>>
    /\ \E r \in Optional(Images) :
         /\ image' = [image EXCEPT ![t] = r]
         /\ EnterProcessImg(t, r, calls[t])
         /\ UNCHANGED <<outcome, ret>>
    /\ UNCHANGED <<report_vars, retry, cmp_cfg, cam_config, updated_cam_config, indicam_id, last_result,
                   task_dev, image_id, delay_idx>>

\* grab_image returns the captured bytes or None.
grab_image(t) ==
    /\ pc[t] = "grab_image"
    /\ UNCHANGED <<grab_vars, deco_vars, entity_vars>>
    /\ \E r \in Optional(Images) :
         /\ image' = [image EXCEPT ![t] = r]
         /\ IF r = None
            THEN EndCycle(t, "no_image", None, calls[t])
            ELSE /\ EnterProcessImg(t, Val(r), calls[t])
                 /\ UNCHANGED <<outcome, ret>>
    /\ UNCHANGED <<report_vars, retry, cmp_cfg, cam_config, updated_cam_config, indicam_id, last_result,
                   task_dev, image_id, delay_idx>>

\* A device id cached for all processors at once.
get_indicam_id_log_shared(t) ==
    /\ pc[t] = "get_indicam_id_log"
    /\ UNCHANGED <<grab_vars, deco_vars, entity_vars>>
    /\ \E r \in Optional(IndicamIds) :
         /\ indicam_id' = [d \in Devices |-> r]
         /\ IF Falsy(r)
            THEN IssueGetIndicamId(t, "get_indicam_id_fetch", Returned(t, r))
            ELSE IssueGetCamconfig(t, r, Returned(t, r))
    /\ UNCHANGED <<report_vars, retry, cmp_cfg, cam_config, updated_cam_config, last_result, task_dev,
                   image, image_id, delay_idx, outcome, ret>>

\* _get_indicam_id asking the service at every call, id stored or not.
get_indicam_id_log_uncached(t) ==
    /\ pc[t] = "get_indicam_id_log"
    /\ UNCHANGED <<grab_vars, deco_vars, entity_vars>>
    /\ \E r \in Optional(IndicamIds) :
         /\ indicam_id' = [indicam_id EXCEPT ![task_dev[t]] = r]
         /\ IssueGetIndicamId(t, "get_indicam_id_fetch", Returned(t, r))
    /\ UNCHANGED <<report_vars, retry, cmp_cfg, cam_config, updated_cam_config, last_result, task_dev,
                   image, image_id, delay_idx, outcome, ret>>

\* get_indicam_id returns to the _get_indicam_id of the debug line (190).
get_indicam_id_log(t) ==
    /\ pc[t] = "get_indicam_id_log"
    /\ UNCHANGED <<grab_vars, deco_vars, entity_vars>>
    /\ \E r \in Optional(IndicamIds) :
         /\ indicam_id' = [indicam_id EXCEPT ![task_dev[t]] = r]
         /\ IF Falsy(r)
            THEN IssueGetIndicamId(t, "get_indicam_id_fetch", Returned(t, r))
            ELSE IssueGetCamconfig(t, r, Returned(t, r))
    /\ UNCHANGED <<report_vars, retry, cmp_cfg, cam_config, updated_cam_config, last_result, task_dev,
                   image, image_id, delay_idx, outcome, ret>>

\* get_indicam_id returns to the _get_indicam_id of line 192.
get_indicam_id_fetch(t) ==
    /\ pc[t] = "get_indicam_id_fetch"
    /\ UNCHANGED <<grab_vars, deco_vars, entity_vars>>
    /\ \E r \in Optional(IndicamIds) :
         /\ indicam_id' = [indicam_id EXCEPT ![task_dev[t]] = r]
         /\ IssueGetCamconfig(t, r, Returned(t, r))
    /\ UNCHANGED <<report_vars, retry, cmp_cfg, cam_config, updated_cam_config, last_result, task_dev,
                   image, image_id, delay_idx, outcome, ret>>

\* get_camconfig without the test of lines 193-196: an absent config compares
\* unequal to the local one and is pushed over.
get_camconfig_unchecked(t) ==
    LET d == task_dev[t]
    IN  /\ pc[t] = "get_camconfig"
        /\ UNCHANGED <<grab_vars, deco_vars, entity_vars>>
        /\ \E svc_cfg \in Optional(CamConfig) :
             /\ cmp_cfg' = [cmp_cfg EXCEPT ![t] = Some(cam_config[d])]
             /\ IF svc_cfg # None /\ CamConfigEq(Val(svc_cfg), cam_config[d])
                THEN /\ updated_cam_config' =
                           [updated_cam_config EXCEPT ![d] = TRUE]
                     /\ IssueUpload(t, Val(image[t]), Returned(t, svc_cfg))
                ELSE /\ IF Falsy(indicam_id[d])
                        THEN IssueGetIndicamId(t, "get_indicam_id_push",
                                               Returned(t, svc_cfg))
                        ELSE IssueCreateCamconfig(t, indicam_id[d],
                                                  Returned(t, svc_cfg))
                     /\ UNCHANGED updated_cam_config
        /\ UNCHANGED <<cam_config, indicam_id, last_result, task_dev,
                       image, image_id, delay_idx, outcome, retry, ret,
                       report_vars>>

\* get_camconfig returns the service's config or None (lines 192-203).
get_camconfig(t) ==
    LET d == task_dev[t]
    IN  /\ pc[t] = "get_camconfig"
        /\ UNCHANGED <<grab_vars, deco_vars, entity_vars>>
        /\ \E svc_cfg \in Optional(CamConfig) :
             IF svc_cfg = None
             THEN /\ RaiseServiceError(t, "fetch_failed", Returned(t, svc_cfg))
                  /\ UNCHANGED <<updated_cam_config, cmp_cfg>>
             ELSE /\ cmp_cfg' = [cmp_cfg EXCEPT ![t] = Some(cam_config[d])]
                  /\ IF CamConfigEq(Val(svc_cfg), cam_config[d])
                     THEN /\ updated_cam_config' =
                                [updated_cam_config EXCEPT ![d] = TRUE]
                          /\ IssueUpload(t, Val(image[t]), Returned(t, svc_cfg))
                          /\ UNCHANGED <<outcome, ret>>
                     ELSE /\ IF Falsy(indicam_id[d])
                             THEN IssueGetIndicamId(t, "get_indicam_id_push",
                                                    Returned(t, svc_cfg))
                             ELSE IssueCreateCamconfig(t, indicam_id[d],
                                                       Returned(t, svc_cfg))
                          /\ UNCHANGED <<updated_cam_config, outcome, ret>>
        /\ UNCHANGED <<cam_config, indicam_id, last_result, task_dev,
                       image, image_id, delay_idx, retry, report_vars>>

\* get_indicam_id returns to the _get_indicam_id of line 202.
get_indicam_id_push(t) ==
    /\ pc[t] = "get_indicam_id_push"
    /\ UNCHANGED <<grab_vars, deco_vars, entity_vars>>
    /\ \E r \in Optional(IndicamIds) :
         /\ indicam_id' = [indicam_id EXCEPT ![task_dev[t]] = r]
         /\ IssueCreateCamconfig(t, r, Returned(t, r))
    /\ UNCHANGED <<report_vars, retry, cmp_cfg, cam_config, updated_cam_config, last_result, task_dev,
                   image, image_id, delay_idx, outcome, ret>>

\* create_camconfig tried a second time within the cycle when it fails.
create_camconfig_retry(t) ==
    LET d == task_dev[t]
    IN  /\ pc[t] = "create_camconfig"
        /\ UNCHANGED <<grab_vars, deco_vars, entity_vars>>
        /\ \E cfg_created \in BOOLEAN :
             IF ~cfg_created
             THEN /\ IF Count(calls[t], "create_camconfig") < 2
                     THEN /\ IssueCreateCamconfig(t, indicam_id[d],
                                 Returned(t, Some(cfg_created)))
                          /\ UNCHANGED <<outcome, ret>>
                     ELSE RaiseServiceError(t, "push_failed",
                                            Returned(t, Some(cfg_created)))
                  /\ UNCHANGED updated_cam_config
             ELSE /\ updated_cam_config' = [updated_cam_config EXCEPT ![d] = TRUE]
                  /\ IssueUpload(t, Val(image[t]), Returned(t, Some(cfg_created)))
                  /\ UNCHANGED <<outcome, ret>>
        /\ UNCHANGED <<report_vars, retry, cmp_cfg, cam_config, indicam_id, last_result, task_dev,
                       image, image_id, delay_idx>>

\* create_camconfig with its result ignored: a failed push neither raises nor
\* sets the flag, and the cycle goes on to the upload.
create_camconfig_ignore_result(t) ==
    LET d == task_dev[t]
    IN  /\ pc[t] = "create_camconfig"
        /\ UNCHANGED <<grab_vars, deco_vars, entity_vars>>
        /\ \E cfg_created \in BOOLEAN :
             /\ updated_cam_config' =
                    [updated_cam_config EXCEPT ![d] = @ \/ cfg_created]
             /\ IssueUpload(t, Val(image[t]), Returned(t, Some(cfg_created)))
        /\ UNCHANGED <<report_vars, retry, cmp_cfg, cam_config, indicam_id, last_result, task_dev,
                       image, image_id, delay_idx, outcome, ret>>

\* create_camconfig with the flag set before the result is looked at.
create_camconfig_flag_first(t) ==
    LET d == task_dev[t]
    IN  /\ pc[t] = "create_camconfig"
        /\ UNCHANGED <<grab_vars, deco_vars, entity_vars>>
        /\ updated_cam_config' = [updated_cam_config EXCEPT ![d] = TRUE]
        /\ \E cfg_created \in BOOLEAN :
             IF ~cfg_created
             THEN RaiseServiceError(t, "push_failed",
                                    Returned(t, Some(cfg_created)))
             ELSE /\ IssueUpload(t, Val(image[t]), Returned(t, Some(cfg_created)))
                  /\ UNCHANGED <<outcome, ret>>
        /\ UNCHANGED <<report_vars, retry, cmp_cfg, cam_config, indicam_id, last_result, task_dev,
                       image, image_id, delay_idx>>

\* create_camconfig returns success or failure (lines 201-209).
create_camconfig(t) ==
    LET d == task_dev[t]
    IN  /\ pc[t] = "create_camconfig"
        /\ UNCHANGED <<grab_vars, deco_vars, entity_vars>>
        /\ \E cfg_created \in BOOLEAN :
             IF ~cfg_created
             THEN /\ RaiseServiceError(t, "push_failed",
                                       Returned(t, Some(cfg_created)))
                  /\ UNCHANGED updated_cam_config
             ELSE /\ updated_cam_config' = [updated_cam_config EXCEPT ![d] = TRUE]
                  /\ IssueUpload(t, Val(image[t]), Returned(t, Some(cfg_created)))
                  /\ UNCHANGED <<outcome, ret>>
        /\ UNCHANGED <<report_vars, retry, cmp_cfg, cam_config, indicam_id, last_result, task_dev,
                       image, image_id, delay_idx>>

\* upload_image without the test of lines 159-161: polling starts whatever
\* the upload returned.
upload_image_unchecked(t) ==
    /\ pc[t] = "upload_image"
    /\ UNCHANGED <<grab_vars, deco_vars, entity_vars>>
    /\ \E r \in Optional(ImageIds) :
         /\ image_id' = [image_id EXCEPT ![t] = r]
         /\ PollLoop(t, 1, r, Returned(t, r))
    /\ UNCHANGED <<prev_timeout, last_good, retry, cmp_cfg, cam_config, updated_cam_config, indicam_id,
                   task_dev, image>>

\* upload_image returns an image id or None (lines 158-162).
upload_image(t) ==
    /\ pc[t] = "upload_image"
    /\ UNCHANGED <<grab_vars, deco_vars, entity_vars>>
    /\ \E r \in Optional(ImageIds) :
         /\ image_id' = [image_id EXCEPT ![t] = r]
         /\ IF Falsy(r)
            THEN /\ AfterProcessImg(t, None, Returned(t, r))
                 /\ logged' = [logged EXCEPT ![t] = Some("upload_failed")]
                 /\ UNCHANGED delay_idx
            ELSE PollLoop(t, 1, r, Returned(t, r))
    /\ UNCHANGED <<prev_timeout, last_good, retry, cmp_cfg, cam_config, updated_cam_config, indicam_id, task_dev, image>>

\* measurement_ready with every wait as long as the first schedule entry.
measurement_ready_fixed_delay(t) ==
    /\ pc[t] = "measurement_ready"
    /\ UNCHANGED <<grab_vars, deco_vars, entity_vars>>
    /\ \E ready \in BOOLEAN :
         IF ~ready
         THEN Goto(t, "sleep",
                   Append(Returned(t, Some(ready)),
                          CallRec("sleep", MEASUREMENT_PROCESS_DELAYS[1])))
         ELSE Goto(t, "get_measurement",
                   Append(Returned(t, Some(ready)),
                          CallRec("get_measurement", image_id[t])))
    /\ UNCHANGED <<report_vars, retry, cmp_cfg, cam_config, updated_cam_config, indicam_id,
                   last_result, task_dev, image, image_id, delay_idx,
                   outcome, ret>>

\* measurement_ready returns (lines 163-166).
measurement_ready(t) ==
    /\ pc[t] = "measurement_ready"
    /\ UNCHANGED <<grab_vars, deco_vars, entity_vars>>
    /\ \E ready \in BOOLEAN :
         IF ~ready
         THEN Goto(t, "sleep",
                   Append(Returned(t, Some(ready)),
                          CallRec("sleep", MEASUREMENT_PROCESS_DELAYS[delay_idx[t]])))
         ELSE Goto(t, "get_measurement",
                   Append(Returned(t, Some(ready)),
                          CallRec("get_measurement", image_id[t])))
    /\ UNCHANGED <<report_vars, retry, cmp_cfg, cam_config, updated_cam_config, indicam_id, last_result,
                   task_dev, image, image_id, delay_idx, outcome, ret>>

\* asyncio.sleep(delay) is over: continue with the next schedule entry.
sleep(t) ==
    /\ pc[t] = "sleep"
    /\ UNCHANGED <<grab_vars, deco_vars, entity_vars>>
    /\ PollLoop(t, delay_idx[t] + 1, image_id[t], Returned(t, None))
    /\ UNCHANGED <<prev_timeout, last_good, retry, cmp_cfg, cam_config, updated_cam_config, indicam_id, task_dev,
                   image, image_id>>

\* get_measurement with `continue` in place of the `break` of line 168.
get_measurement_continue(t) ==
    /\ pc[t] = "get_measurement"
    /\ UNCHANGED <<grab_vars, deco_vars, entity_vars>>
    /\ \E measurement \in Optional(GaugeMeasurement) :
         /\ last_good' = IF Unusable(measurement) THEN last_good
                         ELSE [last_good EXCEPT ![task_dev[t]] = measurement]
         /\ IF measurement = None
            THEN PollLoop(t, delay_idx[t] + 1, image_id[t],
                          Returned(t, measurement))
            ELSE /\ AfterProcessImg(t, measurement, Returned(t, measurement))
                 /\ UNCHANGED <<delay_idx, logged>>
    /\ UNCHANGED <<prev_timeout, retry, cmp_cfg, cam_config, updated_cam_config, indicam_id,
                   task_dev, image, image_id>>

\* get_measurement returns a measurement or None (lines 166-169); None
\* breaks out of the loop to the error message of lines 170-173.
get_measurement(t) ==
    /\ pc[t] = "get_measurement"
    /\ UNCHANGED <<grab_vars, deco_vars, entity_vars>>
    /\ \E measurement \in Optional(GaugeMeasurement) :
         /\ AfterProcessImg(t, measurement, Returned(t, measurement))
         /\ logged' = [logged EXCEPT ![t] =
                           IF measurement = None THEN Some("timed_out") ELSE @]
         /\ last_good' = IF Unusable(measurement) THEN last_good
                         ELSE [last_good EXCEPT ![task_dev[t]] = measurement]
    /\ UNCHANGED <<prev_timeout, retry, cmp_cfg, cam_config, updated_cam_config, indicam_id, task_dev,
                   image, image_id, delay_idx>>

\* The file operations of a decorate_and_save for device d that is given a
\* measurement and meets no error: none without an output path, else
\* save_image of the snapshot and save_image of the measure file.
SavedOps(d) ==
    IF file_path[d] = None THEN <<>>
    ELSE <<ReadRec("makedirs", "snapshot", None),
           ReadRec("open", "snapshot", None),
           ReadRec("write", "snapshot", None),
           ReadRec("makedirs", "measure", None),
           ReadRec("open", "measure", None),
           ReadRec("write", "measure", None)>>

\* decorate_and_save returns: async_update is over.  Here the call is one
\* step that adds its file operations to the cycle's log; what they do to the
\* files, one operation at a time, is followed in SpecFiles.
decorate_and_save(t) ==
    /\ pc[t] = "decorate_and_save"
    /\ UNCHANGED <<grab_vars, deco_vars, entity_vars>>
    /\ EndCycle(t, "ok", ret[t], calls[t] \o SavedOps(task_dev[t]))
    /\ UNCHANGED <<report_vars, retry, cmp_cfg, cam_config, updated_cam_config, indicam_id, last_result,
                   task_dev, image, image_id, delay_idx>>

\* The local configuration of a synced processor is changed between two runs
\* of process_img (a change at any moment since the last run ended shows as a
\* change while the next cycle's image is being grabbed).  Nothing in the
\* source assigns cam_config after construction; the attribute is public.
SetCamConfig(d) ==
    /\ updated_cam_config[d]
    /\ UNCHANGED <<grab_vars, deco_vars, entity_vars>>
    /\ \A t \in DOMAIN task_dev : task_dev[t] = d => pc[t] = "grab_image"
    /\ \E t \in DOMAIN task_dev : task_dev[t] = d
    /\ \E c \in CamConfig \ {cam_config[d]} :
         cam_config' = [cam_config EXCEPT ![d] = c]
    /\ UNCHANGED <<updated_cam_config, indicam_id, last_result, task_dev,
                   pc, image, image_id, delay_idx, calls, cmp_cfg, outcome,
                   retry, ret, report_vars>>

Next ==
    \/ \E t \in Tasks : async_update(t)
    \/ \E t \in Tasks : grab_image(t)
    \/ \E t \in Tasks : get_indicam_id_log(t)
    \/ \E t \in Tasks : get_indicam_id_fetch(t)
    \/ \E t \in Tasks : get_camconfig(t)
    \/ \E t \in Tasks : get_indicam_id_push(t)
    \/ \E t \in Tasks : create_camconfig(t)
    \/ \E t \in Tasks : upload_image(t)
    \/ \E t \in Tasks : measurement_ready(t)
    \/ \E t \in Tasks : sleep(t)
    \/ \E t \in Tasks : get_measurement(t)
    \/ \E t \in Tasks : decorate_and_save(t)
    \/ \E d \in Devices : SetCamConfig(d)

Spec == Init /\ [][Next]_vars

\* The steps that carry a cycle of t on once it has started: the return of
\* the call the cycle awaits and the code up to its next await.
Resume(t) ==
    \/ grab_image(t)
    \/ get_indicam_id_log(t)
    \/ get_indicam_id_fetch(t)
    \/ get_camconfig(t)
    \/ get_indicam_id_push(t)
    \/ create_camconfig(t)
    \/ upload_image(t)
    \/ measurement_ready(t)
    \/ sleep(t)
    \/ get_measurement(t)
    \/ decorate_and_save(t)

\* Every awaited call returns and the event loop resumes the coroutine that
\* awaits it; when the host starts a cycle is left open.
SpecLive == Init /\ [][Next]_vars /\ \A t \in Tasks : WF_vars(Resume(t))

TypeOK ==
    /\ cam_config \in [Devices -> CamConfig]
    /\ updated_cam_config \in [Devices -> BOOLEAN]
    /\ indicam_id \in [Devices -> Optional(IndicamIds)]
    /\ last_result \in [Devices -> Optional(GaugeMeasurement)]
    /\ image \in [Tasks -> Optional(Images)]
    /\ image_id \in [Tasks -> Optional(ImageIds)]
    /\ delay_idx \in [Tasks -> 0..(Len(MEASUREMENT_PROCESS_DELAYS) + 1)]
    /\ ret \in [Tasks -> Optional(GaugeMeasurement)]
    /\ cmp_cfg \in [Tasks -> Optional(CamConfig)]
    /\ outcome \in [Tasks -> {"none", "running", "no_image", "fetch_failed",
                              "push_failed", "failed", "ok"}]
    /\ retry \in [Tasks -> BOOLEAN]
    /\ elapsed \in [Tasks -> Optional(0..Slept([i \in 1..5 |->
                         CallRec("sleep", MEASUREMENT_PROCESS_DELAYS[i])]))]
    /\ logged \in [Tasks -> Optional({"upload_failed", "timed_out"})]
    /\ prev_timeout \in
          [Tasks -> Optional(Optional(GaugeMeasurement)
                                \X Optional({"upload_failed", "timed_out"}))]
    /\ last_good \in [Devices -> Optional(GaugeMeasurement)]

\* ================================================= ImageGrabber.grab_image
\* grab_image in full, one invocation per task.  async_update above sees
\* only what the invocation returns; its steps are the actions below, each
\* the return of the call it is suspended in (gpc) and the code up to the
\* next await.  grab_log[t] holds the invocation's service calls, captures,
\* sleeps and reads of the flash state, in order.

\* What hass.states.get and the state's .state give for the flash: no state
\* object, on, or anything else.
FlashStates == Optional({"on", "off"})

\* A call of the invocation returns r (None for a capture: it raised
\* HomeAssistantError).
GrabReturned(t, r) ==
    [grab_log[t] EXCEPT ![Len(grab_log[t])] = [@ EXCEPT !.done = TRUE, !.res = r]]

GrabGoto(t, newpc, newlog) ==
    /\ gpc' = [gpc EXCEPT ![t] = newpc]
    /\ grab_log' = [grab_log EXCEPT ![t] = newlog]

\* Lines 68-71: grab_image returns the content of camera_image cimg, or None.
GrabReturn(t, cimg, newlog) ==
    /\ GrabGoto(t, "returned", newlog)
    /\ grabbed' = [grabbed EXCEPT ![t] = cimg]

\* Line 61: camera.async_get_image is awaited.
IssueGetImage(t, newlog) ==
    GrabGoto(t, "async_get_image",
             Append(newlog, CallRec("async_get_image",
                                    Val(camera_entity_id[task_dev[t]]))))

\* _turn_flash_on(True) has returned r (the value is dropped, line 56): the
\* retry loop starts with its first capture (lines 57-61).
StartCapture(t, r, newlog) ==
    /\ flash_ret' = [flash_ret EXCEPT ![t] = r]
    /\ get_count' = [get_count EXCEPT ![t] = 1]
    /\ camera_image' = [camera_image EXCEPT ![t] = None]
    /\ IssueGetImage(t, newlog)
    /\ UNCHANGED grabbed

\* The wait loop entered once more, with `<=` in the test of line 95.
FlashWait_one_more(t, w, newlog) ==
    /\ wait_seconds' = [wait_seconds EXCEPT ![t] = w]
    /\ IF w <= FLASH_DELAY_SECONDS
       THEN \E st \in FlashStates :
              LET log2 == Append(newlog,
                                 ReadRec("states.get",
                                         Val(flash_entity_id[task_dev[t]]), st))
              IN  IF st = None
                  THEN StartCapture(t, Some(FALSE), log2)
                  ELSE IF st = Some("on")
                  THEN StartCapture(t, Some(TRUE), log2)
                  ELSE /\ GrabGoto(t, "sleep_flash",
                                   Append(log2, CallRec("sleep", 1)))
                       /\ UNCHANGED <<flash_ret, get_count, camera_image,
                                      grabbed>>
       ELSE StartCapture(t, Some(w <= FLASH_DELAY_SECONDS), newlog)

\* The acquisition given up when the flash has no state.
FlashWait_fatal(t, w, newlog) ==
    /\ wait_seconds' = [wait_seconds EXCEPT ![t] = w]
    /\ IF w < FLASH_DELAY_SECONDS
       THEN \E st \in FlashStates :
              LET log2 == Append(newlog,
                                 ReadRec("states.get",
                                         Val(flash_entity_id[task_dev[t]]), st))
              IN  IF st = None
                  THEN /\ GrabReturn(t, None, log2)
                       /\ flash_ret' = [flash_ret EXCEPT ![t] = Some(FALSE)]
                       /\ UNCHANGED <<get_count, camera_image>>
                  ELSE IF st = Some("on")
                  THEN StartCapture(t, Some(TRUE), log2)
                  ELSE /\ GrabGoto(t, "sleep_flash",
                                   Append(log2, CallRec("sleep", 1)))
                       /\ UNCHANGED <<flash_ret, get_count, camera_image,
                                      grabbed>>
       ELSE StartCapture(t, Some(w <= FLASH_DELAY_SECONDS), newlog)

\* The wait loop of _turn_flash_on (lines 95-110) with wait_seconds = w: the
\* state is read; no state returns False, on leaves the loop, anything else
\* sleeps a second.  Past the loop wait_seconds is at most
\* FLASH_DELAY_SECONDS, so line 106 never holds and True is returned.
FlashWait(t, w, newlog) ==
    /\ wait_seconds' = [wait_seconds EXCEPT ![t] = w]
    /\ IF w < FLASH_DELAY_SECONDS
       THEN \E st \in FlashStates :
              LET log2 == Append(newlog,
                                 ReadRec("states.get",
                                         Val(flash_entity_id[task_dev[t]]), st))
              IN  IF st = None
                  THEN StartCapture(t, Some(FALSE), log2)
                  ELSE IF st = Some("on")
                  THEN StartCapture(t, Some(TRUE), log2)
                  ELSE /\ GrabGoto(t, "sleep_flash",
                                   Append(log2, CallRec("sleep", 1)))
                       /\ UNCHANGED <<flash_ret, get_count, camera_image,
                                      grabbed>>
       ELSE StartCapture(t, Some(w <= FLASH_DELAY_SECONDS), newlog)

\* _turn_flash_on(False) (line 67, lines 82-92) and then lines 68-71.
TurnFlashOff(t, cimg, newlog) ==
    LET d == task_dev[t]
    IN  IF flash_entity_id[d] = None
        THEN GrabReturn(t, cimg, newlog)
        ELSE /\ GrabGoto(t, "async_call_off",
                         Append(newlog, CallRec("turn_off",
                                                Val(flash_entity_id[d]))))
             /\ UNCHANGED grabbed

\* The flash switched on before the camera entity is looked at.
call_grab_image_flash_first(t) ==
    LET d == task_dev[t]
    IN  /\ t \in DOMAIN task_dev
        /\ gpc[t] \in {"idle", "returned"}
        /\ UNCHANGED <<cycle_vars, deco_vars, entity_vars, task_dev, camera_entity_id, flash_entity_id>>
        /\ IF flash_entity_id[d] # None
           THEN /\ GrabGoto(t, "async_call_on",
                            <<CallRec("turn_on", Val(flash_entity_id[d]))>>)
                /\ wait_seconds' = [wait_seconds EXCEPT ![t] = 0]
                /\ flash_ret' = [flash_ret EXCEPT ![t] = None]
                /\ get_count' = [get_count EXCEPT ![t] = 0]
                /\ camera_image' = [camera_image EXCEPT ![t] = None]
                /\ grabbed' = [grabbed EXCEPT ![t] = None]
           ELSE IF camera_entity_id[d] = None
           THEN /\ GrabReturn(t, None, <<>>)
                /\ wait_seconds' = [wait_seconds EXCEPT ![t] = 0]
                /\ flash_ret' = [flash_ret EXCEPT ![t] = None]
                /\ get_count' = [get_count EXCEPT ![t] = 0]
                /\ camera_image' = [camera_image EXCEPT ![t] = None]
           ELSE /\ StartCapture(t, Some(TRUE), <<>>)
                /\ wait_seconds' = [wait_seconds EXCEPT ![t] = 0]

\* grab_image is called (lines 53-56): no camera returns None at once; with
\* a flash the turn-on service call is awaited; without one _turn_flash_on
\* returns True (line 83) and the first capture is awaited.
call_grab_image(t) ==
    LET d == task_dev[t]
    IN  /\ t \in DOMAIN task_dev
        /\ gpc[t] \in {"idle", "returned"}
        /\ UNCHANGED <<cycle_vars, deco_vars, entity_vars, task_dev, camera_entity_id, flash_entity_id>>
        /\ wait_seconds' = [wait_seconds EXCEPT ![t] = 0]
        /\ IF camera_entity_id[d] = None
           THEN /\ GrabReturn(t, None, <<>>)
                /\ flash_ret' = [flash_ret EXCEPT ![t] = None]
                /\ get_count' = [get_count EXCEPT ![t] = 0]
                /\ camera_image' = [camera_image EXCEPT ![t] = None]
           ELSE IF flash_entity_id[d] = None
           THEN StartCapture(t, Some(TRUE), <<>>)
           ELSE /\ GrabGoto(t, "async_call_on",
                            <<CallRec("turn_on", Val(flash_entity_id[d]))>>)
                /\ flash_ret' = [flash_ret EXCEPT ![t] = None]
                /\ get_count' = [get_count EXCEPT ![t] = 0]
                /\ camera_image' = [camera_image EXCEPT ![t] = None]
                /\ grabbed' = [grabbed EXCEPT ![t] = None]

\* The turn-on service call returns (lines 84-95): the wait loop starts.
async_call_on(t) ==
    /\ gpc[t] = "async_call_on"
    /\ UNCHANGED <<cycle_vars, deco_vars, entity_vars, task_dev, camera_entity_id, flash_entity_id>>
    /\ FlashWait(t, 0, GrabReturned(t, None))

\* asyncio.sleep(1) of the wait loop is over (lines 104-105, 95).
sleep_flash(t) ==
    /\ gpc[t] = "sleep_flash"
    /\ UNCHANGED <<cycle_vars, deco_vars, entity_vars, task_dev, camera_entity_id, flash_entity_id>>
    /\ FlashWait(t, wait_seconds[t] + 1, GrabReturned(t, None))

\* async_get_image without the except clause: the error leaves grab_image.
async_get_image_uncaught(t) ==
    /\ gpc[t] = "async_get_image"
    /\ UNCHANGED <<cycle_vars, deco_vars, entity_vars, task_dev, camera_entity_id, flash_entity_id,
                   wait_seconds, flash_ret>>
    /\ \E r \in Optional(Images) :
         IF r = None
         THEN /\ GrabReturn(t, None, GrabReturned(t, r))
              /\ UNCHANGED <<get_count, camera_image>>
         ELSE /\ camera_image' = [camera_image EXCEPT ![t] = r]
              /\ get_count' = [get_count EXCEPT ![t] = @ + 1]
              /\ IF get_count[t] + 1 <= IMAGE_GET_RETRIES
                 THEN /\ IssueGetImage(t, GrabReturned(t, r))
                      /\ UNCHANGED grabbed
                 ELSE TurnFlashOff(t, r, GrabReturned(t, r))

\* async_get_image with a failed attempt forgetting the image at hand.
async_get_image_forgetful(t) ==
    /\ gpc[t] = "async_get_image"
    /\ UNCHANGED <<cycle_vars, deco_vars, entity_vars, task_dev, camera_entity_id, flash_entity_id,
                   wait_seconds, flash_ret>>
    /\ \E r \in Optional(Images) :
         /\ camera_image' = [camera_image EXCEPT ![t] = r]
         /\ get_count' = [get_count EXCEPT ![t] = @ + 1]
         /\ IF get_count[t] + 1 <= IMAGE_GET_RETRIES
            THEN /\ IssueGetImage(t, GrabReturned(t, r))
                 /\ UNCHANGED grabbed
            ELSE TurnFlashOff(t, r, GrabReturned(t, r))

\* camera.async_get_image returns an image or raises HomeAssistantError
\* (lines 59-67): a success replaces camera_image, an error leaves it; the
\* counter goes up either way and the loop runs while it is at most
\* IMAGE_GET_RETRIES.
async_get_image(t) ==
    /\ gpc[t] = "async_get_image"
    /\ UNCHANGED <<cycle_vars, deco_vars, entity_vars, task_dev, camera_entity_id, flash_entity_id,
                   wait_seconds, flash_ret>>
    /\ \E r \in Optional(Images) :
         LET cimg == IF r = None THEN camera_image[t] ELSE r
         IN  /\ camera_image' = [camera_image EXCEPT ![t] = cimg]
             /\ get_count' = [get_count EXCEPT ![t] = @ + 1]
             /\ IF get_count[t] + 1 <= IMAGE_GET_RETRIES
                THEN /\ IssueGetImage(t, GrabReturned(t, r))
                     /\ UNCHANGED grabbed
                ELSE TurnFlashOff(t, cimg, GrabReturned(t, r))

\* The turn-off service call returns (lines 90-92, 68-71).
async_call_off(t) ==
    /\ gpc[t] = "async_call_off"
    /\ UNCHANGED <<cycle_vars, deco_vars, entity_vars, task_dev, camera_entity_id, flash_entity_id,
                   wait_seconds, flash_ret, get_count, camera_image>>
    /\ GrabReturn(t, camera_image[t], GrabReturned(t, None))

NextGrab ==
    \/ \E t \in Tasks : call_grab_image(t)
    \/ \E t \in Tasks : async_call_on(t)
    \/ \E t \in Tasks : sleep_flash(t)
    \/ \E t \in Tasks : async_get_image(t)
    \/ \E t \in Tasks : async_call_off(t)

\* A grabber of any configuration: with or without camera, with or without
\* flash.
InitGrab ==
    /\ InitCommon
    /\ InitSensors
    /\ task_dev = (1 :> "dev_a")
    /\ camera_entity_id \in [Devices -> Optional({"camera.demo_camera"})]
    /\ flash_entity_id \in [Devices -> Optional({"switch.flash"})]
    /\ camera_entity_id["dev_b"] # None
    /\ flash_entity_id["dev_b"] = None
    /\ InitGrabLocals
    /\ file_path = [d \in Devices |-> Some("www")]
    /\ InitDecoLocals

SpecGrab == InitGrab /\ [][NextGrab]_vars

GrabTypeOK ==
    /\ camera_entity_id \in [Devices -> Optional({"camera.demo_camera"})]
    /\ flash_entity_id \in [Devices -> Optional({"switch.flash"})]
    /\ gpc \in [Tasks -> {"idle", "async_call_on", "sleep_flash",
                          "async_get_image", "async_call_off", "returned"}]
    /\ wait_seconds \in [Tasks -> 0..FLASH_DELAY_SECONDS]
    /\ flash_ret \in [Tasks -> Optional(BOOLEAN)]
    /\ get_count \in [Tasks -> 0..(IMAGE_GET_RETRIES + 1)]
    /\ camera_image \in [Tasks -> Optional(Images)]
    /\ grabbed \in [Tasks -> Optional(Images)]


\* ======================================================= decorate_and_save
\* VerticalFloatDecorator.decorate_and_save and save_image, one awaited file
\* operation at a time, and the sensor's async_update as their caller.  The
\* cycle's log `calls` holds the file operations here; image and ret are the
\* image and result arguments of the call.

\* The bytes branch of save_image: the buffer holds the image as it is.
Raw(img) ==
    [st |-> "whole", img |-> Some(img), m |-> None, cfg |-> None,
     lines |-> <<>>]

\* draw.line([(x1, row), (x2, row)]): a horizontal line, (column, row) ends.
Line(x1, x2, row) == [from |-> <<x1, row>>, to |-> <<x2, row>>]

\* _draw_min_max with the two offsets exchanged.
draw_min_max_swapped(msr, cam_conf) ==
    LET height == msr.body_bottom - msr.body_top
        max_row == msr.body_top + (cam_conf.min_perc * height) \div 10
        min_row == msr.body_bottom - (cam_conf.max_perc * height) \div 10
    IN  <<Line(msr.body_left, msr.body_right, max_row),
          Line(msr.body_left, msr.body_right, min_row)>>

\* _draw_min_max (lines 307-330): the max line, then the min line.  The
\* offsets of a CamConfig are counted in tenths (1 is 0.1), hence the
\* division; the gauge heights used are multiples of 10, so it is exact.
draw_min_max(msr, cam_conf) ==
    LET height == msr.body_bottom - msr.body_top
        max_row == msr.body_top + (cam_conf.max_perc * height) \div 10
        min_row == msr.body_bottom - (cam_conf.min_perc * height) \div 10
    IN  <<Line(msr.body_left, msr.body_right, max_row),
          Line(msr.body_left, msr.body_right, min_row)>>

\* _draw_float_line (lines 332-342).
draw_float_line(msr) == <<Line(msr.body_left, msr.body_right, msr.float_top)>>

\* The picture with the min/max and float lines drawn on it, in the order of
\* lines 256-257 (the body box and the scale marks are not followed).
decorate_image(img, result, cfg) ==
    [st |-> "whole", img |-> Some(img), m |-> Some(result), cfg |-> Some(cfg),
     lines |-> draw_min_max(result, cfg) \o draw_float_line(result)]

\* What a file holds: the raw image, or the picture decorate_image makes of
\* image, measurement and camera configuration; whole, cut short by a failed
\* write, or emptied by open(path, "wb").
FileContent ==
    [st : {"whole", "partial", "empty"}, img : Optional(Images),
     m : Optional(GaugeMeasurement), cfg : Optional(CamConfig),
     lines : {<<>>} \cup {draw_min_max(m, c) \o draw_float_line(m) :
                             m \in GaugeMeasurement, c \in CamConfig}]

\* A file just opened with mode "wb".
Truncated ==
    [cfg |-> None, img |-> None, lines |-> <<>>, m |-> None, st |-> "empty"]

\* A file whose write stopped before the end of buffer c.
Partial(c) == [c EXCEPT !.st = "partial"]

\* The variables no step of the decorator touches.
files_frame == <<cam_config, updated_cam_config, indicam_id, pc, image_id,
                 delay_idx, cmp_cfg, retry, report_vars, grab_vars, task_dev,
                 file_path, platform>>

\* decorate_and_save is over: it returned, or exception e left it (and
\* async_update with it).
Finish(t, how, e, fault, newlog) ==
    /\ dpc' = [dpc EXCEPT ![t] = how]
    /\ exc' = [exc EXCEPT ![t] = e]
    /\ io_fault' = [io_fault EXCEPT ![t] = fault]
    /\ outcome' = [outcome EXCEPT ![t] =
                      IF @ # "running" THEN @
                      ELSE IF how = "returned" THEN "ok" ELSE "save_failed"]
    /\ calls' = [calls EXCEPT ![t] = newlog]
    /\ UNCHANGED <<target, buffer, before>>

\* save_image is entered with image b (None for the None argument) and the
\* path of file k: makedirs is awaited (line 263).
SaveImage(t, k, b, newlog) ==
    /\ dpc' = [dpc EXCEPT ![t] = "makedirs"]
    /\ target' = [target EXCEPT ![t] = k]
    /\ buffer' = [buffer EXCEPT ![t] = b]
    /\ before' = [before EXCEPT ![t] = files[task_dev[t]][k]]
    /\ calls' = [calls EXCEPT ![t] = Append(newlog, CallRec("makedirs", k))]

\* The next file operation of the running save_image is awaited.
IssueFileOp(t, op, newlog) ==
    /\ dpc' = [dpc EXCEPT ![t] = op]
    /\ calls' = [calls EXCEPT ![t] = Append(newlog, CallRec(op, target[t]))]
    /\ UNCHANGED <<target, buffer, before, exc, io_fault, outcome>>

\* decorate_and_save saving whether it has an output path or not.
DecorateAndSave_always(t, img) ==
    /\ SaveImage(t, "snapshot", Some(Raw(img)), <<>>)
    /\ exc' = [exc EXCEPT ![t] = None]
    /\ io_fault' = [io_fault EXCEPT ![t] = FALSE]

\* Entry of decorate_and_save(img, result, cam_config): lines 233-236.
DecorateAndSave(t, img) ==
    IF file_path[task_dev[t]] = None
    THEN /\ dpc' = [dpc EXCEPT ![t] = "returned"]
         /\ exc' = [exc EXCEPT ![t] = None]
         /\ io_fault' = [io_fault EXCEPT ![t] = FALSE]
         /\ calls' = [calls EXCEPT ![t] = <<>>]
         /\ UNCHANGED <<target, buffer, before>>
    ELSE /\ SaveImage(t, "snapshot", Some(Raw(img)), <<>>)
         /\ exc' = [exc EXCEPT ![t] = None]
         /\ io_fault' = [io_fault EXCEPT ![t] = FALSE]

\* The sensor's async_update from its start to its return or to the first
\* file operation of decorate_and_save (sensor.py lines 161-178).  grab_image
\* and process_img touch no file; their results are inputs here: an image or
\* None, and HausNetServiceError or a (measurement, elapsed) pair.
update_and_save(t) ==
    /\ t \in DOMAIN task_dev
    /\ platform[task_dev[t]] = "sensor"
    /\ dpc[t] \in {"idle", "returned", "raised"}
    /\ \E img \in Optional(Images), raised \in BOOLEAN,
          m \in Optional(GaugeMeasurement) :
         /\ image' = [image EXCEPT ![t] = img]
         /\ IF img = None \/ raised \/ Unusable(m)
            THEN /\ outcome' = [outcome EXCEPT ![t] =
                                  IF img = None THEN "no_image"
                                  ELSE IF raised THEN "fetch_failed"
                                  ELSE "failed"]
                 /\ ret' = [ret EXCEPT ![t] =
                               IF img = None \/ raised THEN None ELSE m]
                 /\ dpc' = [dpc EXCEPT ![t] = "idle"]
                 /\ exc' = [exc EXCEPT ![t] = None]
                 /\ io_fault' = [io_fault EXCEPT ![t] = FALSE]
                 /\ calls' = [calls EXCEPT ![t] = <<>>]
                 /\ UNCHANGED <<last_result, target, buffer, before>>
            ELSE /\ ret' = [ret EXCEPT ![t] = m]
                 /\ last_result' = [last_result EXCEPT ![task_dev[t]] = m]
                 /\ outcome' = [outcome EXCEPT ![t] =
                                   IF file_path[task_dev[t]] = None
                                   THEN "ok" ELSE "running"]
                 /\ DecorateAndSave(t, Val(img))
    /\ UNCHANGED <<dir_exists, files, files_frame, events>>

\* decorate_and_save is called with any image and any result, None included
\* (lines 226-236).
call_decorate_and_save(t) ==
    /\ t \in DOMAIN task_dev
    /\ dpc[t] \in {"idle", "returned", "raised"}
    /\ \E img \in Images, r \in Optional(GaugeMeasurement) :
         /\ image' = [image EXCEPT ![t] = Some(img)]
         /\ ret' = [ret EXCEPT ![t] = r]
         /\ outcome' = [outcome EXCEPT ![t] = "direct"]
         /\ DecorateAndSave(t, img)
    /\ UNCHANGED <<last_result, dir_exists, files, files_frame, events>>

\* makedirs(dirname, exist_ok=True) returns or fails (line 263); save_image
\* goes on to remove for the None image (lines 264-265), else fills its
\* buffer (lines 266-270) and opens the file (line 272).
makedirs(t) ==
    /\ dpc[t] = "makedirs"
    /\ \E ok \in BOOLEAN :
         IF ok
         THEN /\ dir_exists' = TRUE
              /\ IssueFileOp(t, IF buffer[t] = None THEN "remove" ELSE "open",
                             Returned(t, Some(TRUE)))
         ELSE /\ Finish(t, "raised", Some("OSError"), TRUE,
                        Returned(t, Some(FALSE)))
              /\ UNCHANGED dir_exists
    /\ UNCHANGED <<files, last_result, image, ret, files_frame, events>>

\* save_image leaving the file of the None image in place.
remove_skipped(t) ==
    /\ dpc[t] = "remove"
    /\ Finish(t, "raised", Some("AttributeError"), FALSE,
              Returned(t, Some(TRUE)))
    /\ UNCHANGED <<files, dir_exists, last_result, image, ret, files_frame, events>>

\* remove(path) returns or fails (line 265).  A missing file is
\* FileNotFoundError.  After a removal save_image does not return: image is
\* neither bytes nor an Image, and `image.save` of line 270 raises
\* AttributeError on None.
remove(t) ==
    LET d == task_dev[t]
        k == target[t]
    IN  /\ dpc[t] = "remove"
        /\ IF files[d][k] = None
           THEN /\ Finish(t, "raised", Some("FileNotFoundError"), FALSE,
                          Returned(t, Some(FALSE)))
                /\ UNCHANGED files
           ELSE \E ok \in BOOLEAN :
                  IF ok
                  THEN /\ files' = [files EXCEPT ![d][k] = None]
                       /\ Finish(t, "raised", Some("AttributeError"), FALSE,
                                 Returned(t, Some(TRUE)))
                  ELSE /\ Finish(t, "raised", Some("OSError"), TRUE,
                                 Returned(t, Some(FALSE)))
                       /\ UNCHANGED files
        /\ UNCHANGED <<dir_exists, last_result, image, ret, files_frame, events>>

\* aiofiles.open(path, "wb") returns or fails (line 272): the file is
\* created or emptied, and the write is awaited (line 273).
open_wb(t) ==
    LET d == task_dev[t]
        k == target[t]
    IN  /\ dpc[t] = "open"
        /\ \E ok \in BOOLEAN :
             IF ok
             THEN /\ files' = [files EXCEPT ![d][k] = Some(Truncated)]
                  /\ IssueFileOp(t, "write", Returned(t, Some(TRUE)))
             ELSE /\ Finish(t, "raised", Some("OSError"), TRUE,
                            Returned(t, Some(FALSE)))
                  /\ UNCHANGED files
        /\ UNCHANGED <<dir_exists, last_result, image, ret, files_frame, events>>

\* file.write(buffer) returns or fails part-way (line 273).  After the
\* snapshot decorate_and_save goes on to the measure file (lines 237-241):
\* save_image(None, ...) without a result, else the decorated picture; after
\* the measure file it returns.
write(t) ==
    LET d == task_dev[t]
        k == target[t]
    IN  /\ dpc[t] = "write"
        /\ \E ok \in BOOLEAN :
             IF ok
             THEN /\ files' = [files EXCEPT ![d][k] = buffer[t]]
                  /\ IF k = "measure"
                     THEN Finish(t, "returned", None, FALSE,
                                 Returned(t, Some(TRUE)))
                     ELSE /\ SaveImage(t, "measure",
                                 IF ret[t] = None THEN None
                                 ELSE Some(decorate_image(Val(image[t]),
                                              Val(ret[t]), cam_config[d])),
                                 Returned(t, Some(TRUE)))
                          /\ UNCHANGED <<exc, io_fault, outcome>>
             ELSE /\ files' = [files EXCEPT ![d][k] =
                                  Some(Partial(Val(buffer[t])))]
                  /\ Finish(t, "raised", Some("OSError"), TRUE,
                            Returned(t, Some(FALSE)))
        /\ UNCHANGED <<dir_exists, last_result, image, ret, files_frame, events>>

NextFiles ==
    \/ \E t \in Tasks : update_and_save(t)
    \/ \E t \in Tasks : call_decorate_and_save(t)
    \/ \E t \in Tasks : makedirs(t)
    \/ \E t \in Tasks : remove(t)
    \/ \E t \in Tasks : open_wb(t)
    \/ \E t \in Tasks : write(t)

\* One sensor for dev_a, with or without an output path; an empty start.
InitFiles ==
    /\ InitCommon
    /\ InitSensors
    /\ task_dev = (1 :> "dev_a")
    /\ camera_entity_id = [d \in Devices |-> Some("camera.demo_camera")]
    /\ flash_entity_id = [d \in Devices |-> None]
    /\ InitGrabLocals
    /\ file_path \in [Devices -> Optional(Paths)]
    /\ file_path["dev_b"] # None
    /\ InitDecoLocals

SpecFiles == InitFiles /\ [][NextFiles]_vars

FilesTypeOK ==
    /\ file_path \in [Devices -> Optional(Paths)]
    /\ dir_exists \in BOOLEAN
    /\ files \in [Devices -> [FileKinds -> Optional(FileContent)]]
    /\ dpc \in [Tasks -> {"idle", "makedirs", "remove", "open", "write",
                          "returned", "raised"}]
    /\ target \in [Tasks -> FileKinds]
    /\ buffer \in [Tasks -> Optional(FileContent)]
    /\ before \in [Tasks -> Optional(FileContent)]
    /\ exc \in [Tasks -> Optional({"OSError", "FileNotFoundError",
                                   "AttributeError"})]
    /\ io_fault \in [Tasks -> BOOLEAN]
    /\ \A t \in Tasks : pc[t] = "idle"


\* ======================================================== the two entities
\* IndiCamImageProcessingEntity (image_processing.py) beside the sensor
\* entity: its state, its cycle and the event it fires.

\* Entity.entity_id of the entity of device d.
entity_id(d) == <<platform[d], d>>

\* The data of the INDICAM_MEASUREMENT event (lines 257-266).
MeasurementEvent(m, id) ==
    [body_left |-> m.body_left, body_right |-> m.body_right,
     body_top |-> m.body_top, body_bottom |-> m.body_bottom,
     float_top |-> m.float_top, value |-> m.value, entity_id |-> id]

\* IndiCamImageProcessingEntity.state: the value as it came.
state(d) ==
    IF last_result[d] = None THEN None ELSE Some(Val(last_result[d]).value)

\* The entity's cycle is over without an exception: _async_post_measurement_event
\* has fired the event (line 267) if oc is "ok".
EntityReturn(t, oc, m) ==
    /\ dpc' = [dpc EXCEPT ![t] = IF oc = "ok" THEN "returned" ELSE "idle"]
    /\ outcome' = [outcome EXCEPT ![t] = oc]
    /\ events' = [events EXCEPT ![t] =
                     IF oc = "ok"
                     THEN <<MeasurementEvent(Val(m), entity_id(task_dev[t]))>>
                     ELSE <<>>]

\* The image_processing entity's async_update and async_process_image from
\* the start to the return or to the first _save_image (lines 233-249,
\* 269-283).  The capture of the base class and process_img are inputs: an
\* image or none, and HausNetServiceError or a (measurement, elapsed) pair.
async_process_image(t) ==
    LET d == task_dev[t] IN
    /\ t \in DOMAIN task_dev
    /\ platform[d] = "image_processing"
    /\ dpc[t] \in {"idle", "returned", "raised"}
    /\ \E img \in Optional(Images), raised \in BOOLEAN,
          m \in Optional(GaugeMeasurement) :
         /\ image' = [image EXCEPT ![t] = img]
         /\ ret' = [ret EXCEPT ![t] =
                       IF img = None \/ raised THEN None ELSE m]
         /\ IF img = None \/ raised
            THEN /\ EntityReturn(t, IF img = None THEN "no_image"
                                    ELSE "fetch_failed", None)
                 /\ UNCHANGED last_result
            ELSE IF Unusable(m)
            THEN /\ EntityReturn(t, "failed", None)
                 /\ last_result' = [last_result EXCEPT ![d] = None]
            ELSE /\ last_result' = [last_result EXCEPT ![d] = m]
                 /\ IF file_path[d] = None
                    THEN EntityReturn(t, "ok", m)
                    ELSE /\ dpc' = [dpc EXCEPT ![t] = "save_measure"]
                         /\ outcome' = [outcome EXCEPT ![t] = "running"]
                         /\ events' = [events EXCEPT ![t] = <<>>]
    /\ exc' = [exc EXCEPT ![t] = None]
    /\ io_fault' = [io_fault EXCEPT ![t] = FALSE]
    /\ calls' = [calls EXCEPT ![t] = <<>>]
    /\ UNCHANGED <<dir_exists, files, target, buffer, before, files_frame>>

\* _save_image(image, path) returns or fails (lines 318-328; its makedirs,
\* open and write are taken as one step here, save_image of the decorator
\* is followed one operation at a time above).  The measure file is saved
\* first, the snapshot second (lines 243-247); after the snapshot the event
\* is fired and async_process_image returns.
save_image_ip(t) ==
    LET d == task_dev[t]
        k == IF dpc[t] = "save_measure" THEN "measure" ELSE "snapshot"
        b == IF k = "snapshot" THEN Raw(Val(image[t]))
             ELSE decorate_image(Val(image[t]), Val(last_result[d]),
                                 cam_config[d])
    IN  /\ dpc[t] \in {"save_measure", "save_snapshot"}
        /\ \E how \in {"saved", "not_opened", "cut_short"} :
             IF how = "saved"
             THEN /\ dir_exists' = TRUE
                  /\ files' = [files EXCEPT ![d][k] = Some(b)]
                  /\ UNCHANGED <<exc, io_fault>>
                  /\ IF k = "measure"
                     THEN /\ dpc' = [dpc EXCEPT ![t] = "save_snapshot"]
                          /\ UNCHANGED <<outcome, events>>
                     ELSE EntityReturn(t, "ok", ret[t])
             ELSE /\ IF how = "cut_short"
                     THEN /\ dir_exists' = TRUE
                          /\ files' = [files EXCEPT ![d][k] = Some(Partial(b))]
                     ELSE UNCHANGED <<dir_exists, files>>
                  /\ dpc' = [dpc EXCEPT ![t] = "raised"]
                  /\ exc' = [exc EXCEPT ![t] = Some("OSError")]
                  /\ io_fault' = [io_fault EXCEPT ![t] = TRUE]
                  /\ outcome' = [outcome EXCEPT ![t] = "save_failed"]
                  /\ UNCHANGED events
        /\ UNCHANGED <<last_result, image, ret, calls, target, buffer, before,
                       files_frame>>

NextEntity ==
    \/ \E t \in Tasks : async_process_image(t)
    \/ \E t \in Tasks : save_image_ip(t)
    \/ \E t \in Tasks : update_and_save(t)
    \/ \E t \in Tasks : makedirs(t)
    \/ \E t \in Tasks : open_wb(t)
    \/ \E t \in Tasks : write(t)

\* One entity for dev_a, of either platform, with or without an output path.
InitEntity ==
    /\ InitCommon
    /\ platform \in [Devices -> {"sensor", "image_processing"}]
    /\ platform["dev_b"] = "sensor"
    /\ events = [t \in Tasks |-> <<>>]
    /\ task_dev = (1 :> "dev_a")
    /\ camera_entity_id = [d \in Devices |-> Some("camera.demo_camera")]
    /\ flash_entity_id = [d \in Devices |-> None]
    /\ InitGrabLocals
    /\ file_path \in [Devices -> Optional(Paths)]
    /\ file_path["dev_b"] # None
    /\ InitDecoLocals

SpecEntity == InitEntity /\ [][NextEntity]_vars

EntityTypeOK ==
    /\ platform \in [Devices -> {"sensor", "image_processing"}]
    /\ last_result \in [Devices -> Optional(GaugeMeasurement)]
    /\ \A t \in Tasks :
          /\ Len(events[t]) <= 1
          /\ dpc[t] \in {"idle", "makedirs", "open", "write", "save_measure",
                         "save_snapshot", "returned", "raised"}


\* ============================================================= two devices
\* A sensor for dev_a and a sensor for dev_b, each with its own grabber,
\* processor and decorator (sensor.py lines 105-108), run one cycle each;
\* the steps of the two cycles interleave in every way.

\* The answers the two cycles get are drawn from one value of each kind, to
\* keep the product of the two cycles small: no image or jpeg_a, no device
\* id or 1, no remote config, the local one or one that differs, no image id
\* or 1, no measurement or one of value 1; readiness and push results are
\* both booleans as before.
AnswerInScope(r) ==
    \/ ~r.done
    \/ CASE r.op = "get_indicam_id" -> r.res \in {None, Some(1)}
         [] r.op = "get_camconfig" ->
                r.res \in {None, Some(CAM_CONFIG),
                           Some([max_perc |-> 1, min_perc |-> 0])}
         [] r.op = "upload_image" -> r.res \in {None, Some(1)}
         [] r.op = "get_measurement" -> r.res = None \/ Val(r.res).value = 1
         [] OTHER -> TRUE

InScope ==
    \A t \in DOMAIN task_dev :
        /\ image[t] # Some("jpeg_b")
        /\ \A i \in 1..Len(calls[t]) : AnswerInScope(calls[t][i])

\* The host starts the first update cycle of the sensor entity of task t.
first_async_update(t) ==
    /\ outcome[t] = "none"
    /\ async_update(t)

NextTwo ==
    \/ \E t \in Tasks : first_async_update(t)
    \/ \E t \in Tasks : grab_image(t) /\ InScope'
    \/ \E t \in Tasks : get_indicam_id_log(t) /\ InScope'
    \/ \E t \in Tasks : get_indicam_id_fetch(t) /\ InScope'
    \/ \E t \in Tasks : get_camconfig(t) /\ InScope'
    \/ \E t \in Tasks : get_indicam_id_push(t) /\ InScope'
    \/ \E t \in Tasks : create_camconfig(t)
    \/ \E t \in Tasks : upload_image(t) /\ InScope'
    \/ \E t \in Tasks : measurement_ready(t)
    \/ \E t \in Tasks : sleep(t)
    \/ \E t \in Tasks : get_measurement(t) /\ InScope'
    \/ \E t \in Tasks : decorate_and_save(t)

InitTwo ==
    /\ InitCommon
    /\ InitSensors
    /\ file_path = [d \in Devices |-> Some("www")]
    /\ InitDecoLocals
    /\ task_dev = (1 :> "dev_a" @@ 2 :> "dev_b")
    /\ camera_entity_id = [d \in Devices |-> Some("camera.demo_camera")]
    /\ flash_entity_id = [d \in Devices |-> None]
    /\ InitGrabLocals

SpecTwo == InitTwo /\ [][NextTwo]_vars

\* ----------------------------------------------------- overlapping cycles
\* Two cycles of the sensor entity of one device, started by the host
\* without waiting for the first to end: both run on the same processor, so
\* they share its flag, its device id and the entity's last result, and
\* their steps interleave in every way at the awaits.
InitOverlap ==
    /\ InitCommon
    /\ InitSensors
    /\ file_path = [d \in Devices |-> Some("www")]
    /\ InitDecoLocals
    /\ task_dev = (1 :> "dev_a" @@ 2 :> "dev_a")
    /\ camera_entity_id = [d \in Devices |-> Some("camera.demo_camera")]
    /\ flash_entity_id = [d \in Devices |-> None]
    /\ InitGrabLocals

SpecOverlap == InitOverlap /\ [][NextTwo]_vars


\* ====================================================== the service client
\* IndiCamServiceClient (api_client.py): each operation as a function of the
\* HTTP response it gets, and a caller that logs operation, response and
\* result in `calls`.

\* Status codes: 200, another success (204 No Content), a redirect, a client
\* and a server error.
Statuses == {200, 204, 302, 404, 500}

\* Response bodies: no content at all; the JSON list []; the JSON an
\* operation expects without the field it reads; {"error": ...}; the JSON
\* an operation expects.
Bodies == {"empty", "empty_list", "incomplete", "error", "complete"}
Responses == [status : Statuses, body : Bodies]

\* How an operation ends, as <<exception, value>>: it returns value v, or
\* exception e leaves it.
Return(v) == <<None, v>>
Raise(e) == <<Some(e), None>>
Exc(r) == r[1]
Ret(r) == r[2]

\* bool(response) of requests: Response.ok, no 4xx or 5xx status.
Truthy(resp) == resp.status < 400

\* response.json() followed by the subscripts `[0][field]` an operation
\* applies to a JSON list of rows (get_indicam_id line 65, get_measurement
\* lines 144-151): the value v, or the exception of the first step that
\* fails.
FirstRow(resp, v) ==
    CASE resp.body = "empty" -> Raise("JSONDecodeError")
      [] resp.body = "empty_list" -> Raise("IndexError")
      [] resp.body \in {"incomplete", "error"} -> Raise("KeyError")
      [] OTHER -> Return(Some(v))

\* get_indicam_id (lines 51-65).
client_get_indicam_id(resp) ==
    IF resp.status # 200 THEN Return(None) ELSE FirstRow(resp, 1)

\* get_camconfig (lines 67-88): the keys are looked up with `in`, which a
\* list or an object without them answers with False.
client_get_camconfig(resp) ==
    IF resp.status # 200 THEN Return(None)
    ELSE IF resp.body = "empty" THEN Raise("JSONDecodeError")
    ELSE IF resp.body # "complete" THEN Return(None)
    ELSE Return(Some(CAM_CONFIG))

\* create_camconfig (lines 90-109): the status alone decides.
client_create_camconfig(resp) == Return(Some(resp.status = 200))

\* upload_image (lines 112-127): `not response` is true of 4xx and 5xx
\* only; `"error" in response` iterates over the chunks of the body, bytes
\* that never equal the str "error"; then response.json()['image_id'].
client_upload_image(resp) ==
    IF ~Truthy(resp) THEN Return(None)
    ELSE CASE resp.body = "empty" -> Raise("JSONDecodeError")
           [] resp.body = "empty_list" -> Raise("TypeError")
           [] resp.body \in {"incomplete", "error"} -> Raise("KeyError")
           [] OTHER -> Return(Some(1))

\* get_measurement (lines 130-163).
client_get_measurement(resp) ==
    IF ~Truthy(resp) \/ resp.status # 200 THEN Return(None)
    ELSE FirstRow(resp, [body_bottom |-> 500, body_left |-> 100,
                         body_right |-> 200, body_top |-> 100,
                         float_top |-> 300, value |-> 1])

\* The variables a call of the client leaves alone.
client_frame == <<cam_config, updated_cam_config, indicam_id, last_result, pc,
                  image, image_id, delay_idx, cmp_cfg, outcome, retry, ret,
                  report_vars, grab_vars, deco_vars, entity_vars, task_dev>>

\* The log of task t after its call of operation op, which the service
\* answered with resp and which ended with result r.
ClientCalled(t, op, resp, r) ==
    [calls EXCEPT ![t] = <<[op |-> op, arg |-> resp, done |-> TRUE,
                            res |-> r]>>]

call_get_indicam_id(t) ==
    /\ t \in DOMAIN task_dev
    /\ \E resp \in Responses :
         calls' = ClientCalled(t, "get_indicam_id", resp,
                               client_get_indicam_id(resp))
    /\ UNCHANGED client_frame

call_get_camconfig(t) ==
    /\ t \in DOMAIN task_dev
    /\ \E resp \in Responses :
         calls' = ClientCalled(t, "get_camconfig", resp,
                               client_get_camconfig(resp))
    /\ UNCHANGED client_frame

call_create_camconfig(t) ==
    /\ t \in DOMAIN task_dev
    /\ \E resp \in Responses :
         calls' = ClientCalled(t, "create_camconfig", resp,
                               client_create_camconfig(resp))
    /\ UNCHANGED client_frame

call_upload_image(t) ==
    /\ t \in DOMAIN task_dev
    /\ \E resp \in Responses :
         calls' = ClientCalled(t, "upload_image", resp,
                               client_upload_image(resp))
    /\ UNCHANGED client_frame

call_get_measurement(t) ==
    /\ t \in DOMAIN task_dev
    /\ \E resp \in Responses :
         calls' = ClientCalled(t, "get_measurement", resp,
                               client_get_measurement(resp))
    /\ UNCHANGED client_frame

NextClient ==
    \/ \E t \in Tasks : call_get_indicam_id(t)
    \/ \E t \in Tasks : call_get_camconfig(t)
    \/ \E t \in Tasks : call_create_camconfig(t)
    \/ \E t \in Tasks : call_upload_image(t)
    \/ \E t \in Tasks : call_get_measurement(t)

SpecClient == Init /\ [][NextClient]_vars


\* ========================================================= decorate_image
\* decorate_image as a function of its arguments: a task holds an image, a
\* measurement and the camera configuration of its device, and draws.

\* Measurements with gauges of several places and sizes.
Gauges ==
    [body_left : {100, 150}, body_right : {200}, body_top : {0, 100},
     body_bottom : {400, 500}, float_top : {250, 300}, value : {1}]

\* Offsets of 0, 0.1 and 0.2.
DrawConfigs == [min_perc : 0..2, max_perc : 0..2]

\* decorate_image(image, result, cam_config) returns the picture.
call_decorate_image(t) ==
    /\ t \in DOMAIN task_dev
    /\ buffer[t] = None
    /\ buffer' = [buffer EXCEPT ![t] =
                     Some(decorate_image(Val(image[t]), Val(ret[t]),
                                         cam_config[task_dev[t]]))]
    /\ UNCHANGED <<files_frame, last_result, image, outcome, ret, calls,
                   entity_vars, dir_exists, files, dpc, target, before, exc,
                   io_fault>>

NextDraw == \E t \in Tasks : call_decorate_image(t)

InitDraw ==
    /\ cam_config \in [Devices -> DrawConfigs]
    /\ cam_config["dev_b"] = CAM_CONFIG
    /\ image \in [Tasks -> {Some(i) : i \in Images}]
    /\ ret \in [Tasks -> {Some(m) : m \in Gauges}]
    /\ image[2] = image[1] /\ ret[2] = ret[1]
    /\ updated_cam_config = [d \in Devices |-> FALSE]
    /\ indicam_id = [d \in Devices |-> None]
    /\ last_result = [d \in Devices |-> None]
    /\ pc = [t \in Tasks |-> "idle"]
    /\ image_id = [t \in Tasks |-> None]
    /\ delay_idx = [t \in Tasks |-> 0]
    /\ calls = [t \in Tasks |-> <<>>]
    /\ cmp_cfg = [t \in Tasks |-> None]
    /\ outcome = [t \in Tasks |-> "none"]
    /\ retry = [t \in Tasks |-> FALSE]
    /\ elapsed = [t \in Tasks |-> None]
    /\ logged = [t \in Tasks |-> None]
    /\ prev_timeout = [t \in Tasks |-> None]
    /\ last_good = [d \in Devices |-> None]
    /\ InitSensors
    /\ file_path = [d \in Devices |-> Some("www")]
    /\ InitDecoLocals
    /\ task_dev = (1 :> "dev_a")
    /\ camera_entity_id = [d \in Devices |-> Some("camera.demo_camera")]
    /\ flash_entity_id = [d \in Devices |-> None]
    /\ InitGrabLocals

SpecDraw == InitDraw /\ [][NextDraw]_vars

\* ======================================================== checked claims
RunningTasks == DOMAIN task_dev

\* Log entries of task t's cycle in which get_camconfig returned a config.
Fetched(t) ==
    {i \in CallsOf(calls[t], "get_camconfig") :
        calls[t][i].done /\ calls[t][i].res # None}

\* The cycle's sync compared a remote config different from / equal to the
\* local one.
RemoteDiffers(t) ==
    /\ cmp_cfg[t] # None
    /\ \E i \in Fetched(t) : Val(calls[t][i].res) # Val(cmp_cfg[t])

RemoteEqual(t) ==
    /\ cmp_cfg[t] # None
    /\ \E i \in Fetched(t) : Val(calls[t][i].res) = Val(cmp_cfg[t])

\* Log entries of operation op of task t that returned result r.
ReturnedWith(t, op, r) ==
    {i \in CallsOf(calls[t], op) : calls[t][i].done /\ calls[t][i].res = r}

\* C1: in a cycle whose sync found the remote config different from the local
\* one, create_camconfig is called exactly once (it is issued as soon as the
\* device id is at hand), and the synced flag is set only if that call
\* returned success.
C1_PushOnceFlagOnSuccess ==
    \A t \in RunningTasks :
        RemoteDiffers(t) =>
            /\ Count(calls[t], "create_camconfig") =
                   IF pc[t] = "get_indicam_id_push" THEN 0 ELSE 1
            /\ updated_cam_config[task_dev[t]] =>
                   ReturnedWith(t, "create_camconfig", Some(TRUE)) # {}

C1_Witness ==
    \E t \in RunningTasks :
        /\ RemoteDiffers(t)
        /\ updated_cam_config[task_dev[t]]
        /\ Count(calls[t], "create_camconfig") = 1

\* C2: in a cycle whose sync found the remote config equal by value to the
\* local one, create_camconfig is never called and the synced flag is set.
C2_EqualRemoteNoPush ==
    \A t \in RunningTasks :
        RemoteEqual(t) =>
            /\ Count(calls[t], "create_camconfig") = 0
            /\ updated_cam_config[task_dev[t]]

C2_Witness ==
    \E t \in RunningTasks :
        /\ RemoteEqual(t)
        /\ pc[t] = "upload_image"
        /\ updated_cam_config[task_dev[t]]

SyncOps == {"get_indicam_id", "get_camconfig", "create_camconfig"}

\* C3: once the synced flag of a processor is set it stays set, and no step
\* taken while it is set issues get_camconfig or create_camconfig for that
\* processor, whatever the local cam_config has been changed to.
C3_SyncedIsFinal ==
    [][\A d \in Devices :
          updated_cam_config[d] =>
             /\ updated_cam_config'[d]
             /\ \A t \in RunningTasks :
                   task_dev[t] = d =>
                      /\ Count(calls'[t], "get_camconfig")
                            <= Count(calls[t], "get_camconfig")
                      /\ Count(calls'[t], "create_camconfig")
                            <= Count(calls[t], "create_camconfig")]_vars

\* The local config differs from the one last compared, and a later cycle
\* has gone straight to the upload.
C3_Witness ==
    \E t \in RunningTasks :
        /\ updated_cam_config[task_dev[t]]
        /\ cmp_cfg[t] # None
        /\ Val(cmp_cfg[t]) # cam_config[task_dev[t]]
        /\ Count(calls[t], "upload_image") = 1
        /\ Count(calls[t], "get_camconfig") = 0

\* C4: a create_camconfig that returned failure ends the cycle with the
\* service error of line 205 and leaves the synced flag unset; the next cycle
\* that processes an image fetches the remote config again (once the device
\* id is at hand) and pushes again if the remote config still differs.
C4_PushFailureRetried ==
    \A t \in RunningTasks :
        /\ ReturnedWith(t, "create_camconfig", Some(FALSE)) # {} =>
              /\ pc[t] = "idle"
              /\ outcome[t] = "push_failed"
              /\ ~updated_cam_config[task_dev[t]]
        /\ (retry[t] /\ pc[t] \notin {"idle", "grab_image"}) =>
              /\ Count(calls[t], "get_camconfig") =
                    IF pc[t] \in {"get_indicam_id_log", "get_indicam_id_fetch"}
                    THEN 0 ELSE 1
              /\ RemoteDiffers(t) =>
                    Count(calls[t], "create_camconfig") =
                       IF pc[t] = "get_indicam_id_push" THEN 0 ELSE 1

\* The cycle after a failed push is pushing again.
C4_Witness ==
    \E t \in RunningTasks :
        /\ retry[t]
        /\ pc[t] = "create_camconfig"
        /\ RemoteDiffers(t)

\* C5: a get_camconfig that returned None ends the cycle with the service
\* error of line 194; create_camconfig is not called and the synced flag
\* stays unset.
C5_FetchFailureNoPush ==
    \A t \in RunningTasks :
        ReturnedWith(t, "get_camconfig", None) # {} =>
            /\ pc[t] = "idle"
            /\ outcome[t] = "fetch_failed"
            /\ Count(calls[t], "create_camconfig") = 0
            /\ ~updated_cam_config[task_dev[t]]

C5_Witness ==
    \E t \in RunningTasks :
        /\ ReturnedWith(t, "get_camconfig", None) # {}
        /\ outcome[t] = "fetch_failed"

\* C6: every call of the config sync has returned before upload_image is
\* issued, the flag is set by then, and a cycle ended by a sync failure has
\* called none of upload_image, measurement_ready and get_measurement.
C6_SyncBeforeUpload ==
    \A t \in RunningTasks :
        LET s == calls[t] IN
        /\ \A i \in CallsOf(s, "upload_image") :
              /\ updated_cam_config[task_dev[t]]
              /\ \A j \in 1..Len(s) :
                    s[j].op \in SyncOps => (j < i /\ s[j].done)
        /\ (pc[t] = "idle" /\ outcome[t] \in {"fetch_failed", "push_failed"}) =>
              /\ Count(s, "upload_image") = 0
              /\ Count(s, "measurement_ready") = 0
              /\ Count(s, "get_measurement") = 0

\* A cycle that synced by pushing and then uploaded.
C6_Witness ==
    \E t \in RunningTasks :
        /\ ReturnedWith(t, "create_camconfig", Some(TRUE)) # {}
        /\ Count(calls[t], "upload_image") = 1

\* C7: an upload_image that returned None ends process_img at once with no
\* measurement: upload_image was called once in the cycle, and
\* measurement_ready, get_measurement and the backoff sleep not at all.
C7_UploadFailureEndsCycle ==
    \A t \in RunningTasks :
        ReturnedWith(t, "upload_image", None) # {} =>
            /\ pc[t] = "idle"
            /\ ret[t] = None
            /\ outcome[t] = "failed"
            /\ Count(calls[t], "upload_image") = 1
            /\ Count(calls[t], "measurement_ready") = 0
            /\ Count(calls[t], "get_measurement") = 0
            /\ Count(calls[t], "sleep") = 0

C7_Witness ==
    \E t \in RunningTasks :
        /\ ReturnedWith(t, "upload_image", None) # {}
        /\ pc[t] = "idle"

\* The backoff schedule the claims speak of.
Schedule == <<1, 5, 25, 60, 90>>

\* The position of log index i among the indices in I.
Rank(I, i) == Cardinality({j \in I : j <= i})

\* C8: the sleeps of a cycle are, in order, the first entries of
\* [1, 5, 25, 60, 90]; the k-th readiness check, when it returns not ready, is
\* followed at once by a sleep of the k-th entry; every sleep directly
\* follows a readiness check that returned not ready.
C8_BackoffSchedule ==
    \A t \in RunningTasks :
        LET s == calls[t]
            R == CallsOf(s, "measurement_ready")
            S == CallsOf(s, "sleep")
        IN  /\ Cardinality(S) <= Len(Schedule)
            /\ \A i \in S :
                  /\ s[i].arg = Schedule[Rank(S, i)]
                  /\ i - 1 \in ReturnedWith(t, "measurement_ready", Some(FALSE))
            /\ \A i \in ReturnedWith(t, "measurement_ready", Some(FALSE)) :
                  /\ i + 1 \in S
                  /\ s[i + 1].arg = Schedule[Rank(R, i)]

\* A cycle that went through the whole schedule.
C8_Witness ==
    \E t \in RunningTasks : Count(calls[t], "sleep") = Len(Schedule)

\* C9: the first readiness check that returns ready is the last one of the
\* cycle and no sleep follows it; get_measurement is called right after it,
\* once in the cycle, with the image id upload_image returned.
C9_StopAtFirstReady ==
    \A t \in RunningTasks :
        LET s == calls[t] IN
        \A i \in ReturnedWith(t, "measurement_ready", Some(TRUE)) :
            /\ \A j \in (i + 1)..Len(s) :
                  s[j].op \notin {"measurement_ready", "sleep"}
            /\ Count(s, "get_measurement") = 1
            /\ i + 1 \in CallsOf(s, "get_measurement")
            /\ \E u \in CallsOf(s, "upload_image") :
                  s[u].done /\ s[i + 1].arg = s[u].res

\* Ready at the third check, and get_measurement came back empty.
C9_Witness ==
    \E t \in RunningTasks :
        /\ ReturnedWith(t, "measurement_ready", Some(TRUE)) # {}
        /\ Count(calls[t], "sleep") = 2
        /\ ReturnedWith(t, "get_measurement", None) # {}

\* An upload_image of the cycle returned a usable image id.
Uploaded(t) ==
    \E u \in CallsOf(calls[t], "upload_image") :
        calls[t][u].done /\ ~Falsy(calls[t][u].res)

\* C10: no cycle makes more than 5 readiness checks; a finished cycle that
\* uploaded and never saw ready made exactly 5, returned no measurement and
\* did not call get_measurement.
C10_TimeoutAfterFiveChecks ==
    \A t \in RunningTasks :
        LET s == calls[t] IN
        /\ Count(s, "measurement_ready") <= 5
        /\ (/\ pc[t] = "idle"
            /\ Uploaded(t)
            /\ ReturnedWith(t, "measurement_ready", Some(TRUE)) = {}) =>
              /\ Count(s, "measurement_ready") = 5
              /\ ret[t] = None
              /\ outcome[t] = "failed"
              /\ Count(s, "get_measurement") = 0

C10_Witness ==
    \E t \in RunningTasks :
        /\ pc[t] = "idle"
        /\ Uploaded(t)
        /\ ReturnedWith(t, "measurement_ready", Some(FALSE)) # {}
        /\ ReturnedWith(t, "measurement_ready", Some(TRUE)) = {}

\* What process_img hands its caller about a failure: the measurement part of
\* the returned pair and the error it logged.  (The elapsed time is a
\* duration, which call latencies make any value in either case.)
Reported(t) == <<ret[t], logged[t]>>

\* C11: a finished cycle in which ready was signalled and get_measurement
\* returned nothing reports something else than the cycle before it did when
\* that one ran out of schedule without readiness: the caller can tell
\* MeasurementUnavailable from MeasurementTimeout.
C11_UnavailableToldApart ==
    \A t \in RunningTasks :
        (/\ pc[t] = "idle"
         /\ ReturnedWith(t, "get_measurement", None) # {}
         /\ prev_timeout[t] # None) =>
            Reported(t) # Val(prev_timeout[t])

\* process_img was called in the cycle of t and the cycle is past it.
PastProcessImg(t) ==
    /\ image[t] # None
    /\ pc[t] \in {"idle", "decorate_and_save"}

\* C12: every cycle that is past its call of process_img got a pair
\* (measurement or None, elapsed time) back from it, with None for the
\* measurement unless get_measurement returned one.
C12_EveryOutcomeIsAPair ==
    \A t \in RunningTasks :
        PastProcessImg(t) =>
            /\ elapsed[t] # None
            /\ (\A i \in CallsOf(calls[t], "get_measurement") :
                    calls[t][i].res = None) => ret[t] = None

\* The cycle of t ended with HausNetServiceError leaving async_update.
Propagated(t) ==
    /\ pc[t] = "idle"
    /\ outcome[t] \in {"fetch_failed", "push_failed"}

\* C13: no cycle ends with an exception propagating out of async_update to
\* the host, whatever the collaborators answered.
C13_NoExceptionToHost ==
    \A t \in RunningTasks : ~Propagated(t)

FailedOutcomes == {"no_image", "fetch_failed", "push_failed", "failed"}

\* C14: after a cycle that failed, the sensor's last result is the latest
\* usable measurement the service returned (that of the most recent
\* successful cycle, None if there was none), and the displayed value is the
\* one derived from it.
C14_FailedCycleKeepsLastResult ==
    \A t \in RunningTasks :
        (pc[t] = "idle" /\ outcome[t] \in FailedOutcomes) =>
            LET d == task_dev[t] IN
            /\ last_result[d] = last_good[d]
            /\ native_value(d) =
                   IF last_good[d] = None THEN None
                   ELSE Some(round_1(Val(last_good[d]).value))

\* A cycle failed at the upload after an earlier one had succeeded.
C14_Witness ==
    \E t \in RunningTasks :
        /\ pc[t] = "idle"
        /\ outcome[t] = "failed"
        /\ ReturnedWith(t, "upload_image", None) # {}
        /\ last_good[task_dev[t]] # None
        /\ last_result[task_dev[t]] = last_good[task_dev[t]]

\* C15: as long as no cycle of a device has obtained a usable measurement,
\* the entity's state is None and its gauge_measurement attribute is None.
C15_UnknownBeforeFirstSuccess ==
    \A d \in Devices :
        last_good[d] = None =>
            /\ native_value(d) = None
            /\ extra_state_attributes(d).gauge_measurement = None

\* Two failed cycles in a row and no successful one so far.
C15_Witness ==
    \E t \in RunningTasks :
        /\ pc[t] = "idle"
        /\ outcome[t] = "failed"
        /\ prev_timeout[t] # None
        /\ last_good[task_dev[t]] = None
        /\ native_value(task_dev[t]) = None

\* Log entries of operation op of task t's grab_image that returned.
GrabDone(t, op) == {i \in CallsOf(grab_log[t], op) : grab_log[t][i].done}

\* The captures of the invocation that succeeded.
Captured(t) ==
    {i \in GrabDone(t, "async_get_image") : grab_log[t][i].res # None}

\* C16: a grabber with no camera entity makes no call at all, neither a
\* capture nor a flash service call, and its grab_image returns no image.
C16_NoCameraNoCalls ==
    \A t \in RunningTasks :
        camera_entity_id[task_dev[t]] = None =>
            /\ grab_log[t] = <<>>
            /\ gpc[t] \in {"idle", "returned"}
            /\ grabbed[t] = None

\* grab_image has returned on a grabber with a flash and no camera.
C16_Witness ==
    \E t \in RunningTasks :
        /\ camera_entity_id[task_dev[t]] = None
        /\ flash_entity_id[task_dev[t]] # None
        /\ gpc[t] = "returned"

\* C17: an invocation that issued the turn-on call and has returned issued
\* the turn-off call, once, after its last capture attempt, and that call
\* has returned.
C17_FlashTurnedOffAgain ==
    \A t \in RunningTasks :
        LET s == grab_log[t] IN
        (gpc[t] = "returned" /\ Count(s, "turn_on") > 0) =>
            /\ Count(s, "turn_off") = 1
            /\ GrabDone(t, "turn_off") = {Len(s)}
            /\ \A i \in CallsOf(s, "turn_on") : i < Len(s)

\* Every capture attempt failed, and the flash was switched off.
C17_Witness ==
    \E t \in RunningTasks :
        /\ gpc[t] = "returned"
        /\ Count(grab_log[t], "turn_on") = 1
        /\ Count(grab_log[t], "async_get_image") = IMAGE_GET_RETRIES
        /\ Captured(t) = {}
        /\ GrabDone(t, "turn_off") # {}

\* The wait for the flash is over without an on-state having been read: a
\* read found no state, or the budget of FLASH_DELAY_SECONDS sleeps is spent.
FlashNotConfirmed(t) ==
    LET s == grab_log[t] IN
    /\ Count(s, "turn_on") > 0
    /\ \A i \in CallsOf(s, "states.get") : s[i].res # Some("on")
    /\ \/ \E i \in CallsOf(s, "states.get") : s[i].res = None
       \/ Cardinality(GrabDone(t, "sleep")) = FLASH_DELAY_SECONDS

\* C18: when the wait for the flash ends without the on-state, grab_image
\* goes on to the capture attempts, and what it returns depends on them
\* alone: an image if one of them succeeded.
C18_FlashFailureNotFatal ==
    \A t \in RunningTasks :
        FlashNotConfirmed(t) =>
            /\ Count(grab_log[t], "async_get_image") > 0
            /\ gpc[t] = "returned" =>
                  /\ Count(grab_log[t], "async_get_image") = IMAGE_GET_RETRIES
                  /\ (grabbed[t] # None) = (Captured(t) # {})

\* The flash stayed off for the whole budget and an image was returned.
C18_Witness ==
    \E t \in RunningTasks :
        /\ FlashNotConfirmed(t)
        /\ Cardinality(GrabDone(t, "sleep")) = FLASH_DELAY_SECONDS
        /\ gpc[t] = "returned"
        /\ grabbed[t] # None

\* C19: an invocation makes at most IMAGE_GET_RETRIES capture calls, and
\* once it has returned, it returned an image if and only if one of its
\* capture calls succeeded.
C19_AtMostThreeCaptures ==
    \A t \in RunningTasks :
        /\ Count(grab_log[t], "async_get_image") <= IMAGE_GET_RETRIES
        /\ gpc[t] = "returned" => (grabbed[t] # None) = (Captured(t) # {})

\* The first capture succeeded, the later ones failed, an image is returned.
C19_Witness ==
    \E t \in RunningTasks :
        /\ gpc[t] = "returned"
        /\ grabbed[t] # None
        /\ Cardinality(Captured(t)) = 1
        /\ Count(grab_log[t], "async_get_image") = IMAGE_GET_RETRIES
        /\ grab_log[t][Len(grab_log[t])].res = None

\* C20: no capture call follows a capture call that succeeded.
C20_StopOnFirstSuccess ==
    \A t \in RunningTasks :
        \A i \in Captured(t) :
            \A j \in CallsOf(grab_log[t], "async_get_image") : j <= i

\* The first capture of the invocation that succeeded.
FirstCaptured(t) == CHOOSE i \in Captured(t) : \A j \in Captured(t) : i <= j

\* C21: the bytes a returned grab_image hands back are those of the first
\* capture of the invocation that succeeded, whatever the later ones gave.
C21_FirstCaptureReturned ==
    \A t \in RunningTasks :
        (gpc[t] = "returned" /\ Captured(t) # {}) =>
            grabbed[t] = grab_log[t][FirstCaptured(t)].res

\* What a cycle does to obtain a measurement and to save its images.
MeasureOps == {"get_indicam_id", "get_camconfig", "create_camconfig",
               "upload_image", "measurement_ready", "get_measurement"}
FileOps == {"makedirs", "remove", "open", "write"}

\* C22: a cycle whose grab_image returned no image (no camera, or no capture
\* succeeded) ends right there: it calls none of the config sync operations,
\* upload_image, measurement_ready and get_measurement, and performs no file
\* operation.
C22_NoImageNoMeasurement ==
    \A t \in RunningTasks :
        (image[t] = None /\ pc[t] # "grab_image") =>
            /\ pc[t] = "idle"
            /\ outcome[t] \in {"none", "no_image"}
            /\ \A i \in 1..Len(calls[t]) :
                  calls[t][i].op \notin MeasureOps \cup FileOps

\* A cycle without an image has ended, after one that measured and saved.
C22_Witness ==
    \E t \in RunningTasks :
        /\ pc[t] = "idle"
        /\ outcome[t] = "no_image"
        /\ image[t] = None
        /\ last_result[task_dev[t]] # None

\* The cycle of t captured an image, and process_img gave no measurement the
\* sensor accepts or raised.
CapturedNotMeasured(t) ==
    /\ dpc[t] = "idle"
    /\ image[t] # None
    /\ outcome[t] \in {"failed", "fetch_failed"}

\* C23: after a cycle that captured an image and got no measurement, with an
\* output path configured, the snapshot file holds the captured image and
\* there is no measure file.
C23_FailedCycleUpdatesFiles ==
    \A t \in RunningTasks :
        (CapturedNotMeasured(t) /\ file_path[task_dev[t]] # None) =>
            /\ files[task_dev[t]]["snapshot"] = Some(Raw(Val(image[t])))
            /\ files[task_dev[t]]["measure"] = None

\* decorate_and_save, called with an output path and no result, is over,
\* and none of its file operations failed with an I/O error.
SavedWithoutResult(t) ==
    /\ dpc[t] \in {"returned", "raised"}
    /\ file_path[task_dev[t]] # None
    /\ ret[t] = None
    /\ ~io_fault[t]

\* C24: after a decorate_and_save with no result and an output path, whose
\* file operations met no I/O error, the snapshot file holds the raw image
\* and there is no measure file, whether there was one before or not.
C24_NoResultRemovesMeasure ==
    \A t \in RunningTasks :
        SavedWithoutResult(t) =>
            /\ files[task_dev[t]]["snapshot"] = Some(Raw(Val(image[t])))
            /\ files[task_dev[t]]["measure"] = None

\* A measure file of an earlier call was there and has been removed.
C24_Witness ==
    \E t \in RunningTasks :
        /\ SavedWithoutResult(t)
        /\ target[t] = "measure"
        /\ before[t] # None
        /\ Val(before[t]).st = "whole"
        /\ files[task_dev[t]]["measure"] = None

\* C25: no step of a decorator without an output path creates the directory,
\* writes or removes a file, or issues a file operation.
C25_NoPathNoEffect ==
    [][\A t \in RunningTasks :
          file_path[task_dev[t]] = None =>
             /\ dir_exists' = dir_exists
             /\ files' = files
             /\ \A i \in 1..Len(calls'[t]) : calls'[t][i].op \notin FileOps]_vars

\* decorate_and_save has returned on a decorator without an output path.
C25_Witness ==
    \E t \in RunningTasks :
        /\ file_path[task_dev[t]] = None
        /\ dpc[t] = "returned"
        /\ image[t] # None
        /\ outcome[t] \in {"ok", "direct"}

\* The write of the running save_image failed.
WriteFailed(t) ==
    /\ dpc[t] = "raised"
    /\ calls[t] # <<>>
    /\ calls[t][Len(calls[t])].op = "write"

\* C26: after a failed write the target file holds what it held when
\* save_image was entered or the whole new content.
C26_AllOrNothing ==
    \A t \in RunningTasks :
        WriteFailed(t) =>
            files[task_dev[t]][target[t]] \in {before[t], buffer[t]}

\* The cycle of t captured an image and its process_img has returned
\* (the config sync, if it ran, did not raise).
ProcessedImage(t) ==
    /\ image[t] # None
    /\ pc[t] \in {"idle", "decorate_and_save"}
    /\ outcome[t] \notin {"fetch_failed", "push_failed"}

\* C27: no cycle uploads twice, and a cycle that captured an image and got
\* through the config sync called upload_image once, with the device name of
\* its processor and the captured bytes, whether it went on to a measurement
\* or not.
C27_UploadedOnceAsCaptured ==
    \A t \in RunningTasks :
        LET s == calls[t] IN
        /\ Count(s, "upload_image") <= 1
        /\ \A i \in CallsOf(s, "upload_image") :
              s[i].arg = <<device_name(task_dev[t]), Val(image[t])>>
        /\ ProcessedImage(t) => Count(s, "upload_image") = 1

\* A cycle uploaded and then ran out of schedule without a measurement.
C27_Witness ==
    \E t \in RunningTasks :
        /\ ProcessedImage(t)
        /\ pc[t] = "idle"
        /\ TimedOut(calls[t])
        /\ Count(calls[t], "upload_image") = 1

\* The cycle of t is over and gave the entity a measurement.
Successful(t) == dpc[t] \in {"idle", "returned"} /\ outcome[t] = "ok"

\* The cycle of t is over and gave the entity none.
Failed(t) ==
    /\ dpc[t] \in {"idle", "returned"}
    /\ outcome[t] \in {"no_image", "fetch_failed", "failed"}

\* C28: an entity whose cycle succeeded has fired one measurement event in
\* it, with the six fields of the measurement the service returned and its
\* own entity_id; an entity whose cycle failed has fired none.
C28_OneEventPerSuccess ==
    \A t \in RunningTasks :
        /\ Successful(t) =>
              events[t] = <<MeasurementEvent(Val(ret[t]),
                                             entity_id(task_dev[t]))>>
        /\ Failed(t) => events[t] = <<>>

\* C29: after a successful cycle the gauge_measurement attribute is the
\* measurement the service returned; the image_processing entity's state is
\* its value, and the sensor shows, in tenths of a percent, the number
\* nearest to value * 100, between 0 and 100 percent.
C29_StateFromMeasurement ==
    \A t \in RunningTasks :
        Successful(t) =>
            LET d == task_dev[t]
                v == Val(ret[t]).value
            IN  /\ extra_state_attributes(d).gauge_measurement = ret[t]
                /\ IF platform[d] = "sensor"
                   THEN /\ native_value(d) # None
                        /\ LET shown == Val(native_value(d))
                               diff == shown * ValueUnits - v * 100 * 10
                           IN  /\ 2 * diff <= ValueUnits
                               /\ -2 * diff <= ValueUnits
                               /\ shown \in 0..(100 * 10)
                   ELSE state(d) = Some(v)

\* A sensor shows 0.1 percent for a value that is nearer to it than to 0.
C29_Witness ==
    \E t \in RunningTasks :
        /\ Successful(t)
        /\ platform[task_dev[t]] = "sensor"
        /\ Val(ret[t]).value = 2
        /\ native_value(task_dev[t]) = Some(1)

\* Task t takes the step.
StepOf(t) == pc'[t] # pc[t] \/ calls'[t] # calls[t]

\* C30: a step of the cycle of one device leaves the synced flag, the cached
\* device id and the last result of every other device as they were,
\* wherever the other device's cycle stands.
C30_DevicesIndependent ==
    [][\A t \in RunningTasks :
          StepOf(t) =>
             \A d \in Devices \ {task_dev[t]} :
                /\ updated_cam_config'[d] = updated_cam_config[d]
                /\ indicam_id'[d] = indicam_id[d]
                /\ last_result'[d] = last_result[d]]_vars

\* dev_a is synced and has a result; dev_b, in the middle of its own cycle,
\* has neither a device id nor the flag nor a result.
C30_Witness ==
    /\ RunningTasks = {1, 2}
    /\ outcome[1] = "ok"
    /\ updated_cam_config["dev_a"]
    /\ last_result["dev_a"] # None
    /\ pc[2] = "get_indicam_id_log"
    /\ indicam_id["dev_b"] = None
    /\ ~updated_cam_config["dev_b"]
    /\ last_result["dev_b"] = None

\* The response is not a 200, or it carries nothing: no body, or no row.
NoAnswer(resp) == resp.status # 200 \/ resp.body \in {"empty", "empty_list"}

\* C31: a client operation that got a non-200 or an empty response has
\* returned its failure value, False for create_camconfig and None for the
\* others, and no exception has left it.
C31_ClientNeverRaises ==
    \A t \in RunningTasks :
        \A i \in 1..Len(calls[t]) :
            LET c == calls[t][i] IN
            NoAnswer(c.arg) =>
                /\ Exc(c.res) = None
                /\ IF c.op = "create_camconfig"
                   THEN Ret(c.res) = Some(FALSE)
                   ELSE Ret(c.res) = None

\* C32: a get_measurement that returned nothing is the last call of its
\* cycle's poll loop: no readiness check, sleep or get_measurement follows
\* it in the cycle, process_img returns no measurement and the cycle is over.
C32_EmptyResultLeavesLoop ==
    \A t \in RunningTasks :
        LET s == calls[t] IN
        \A i \in ReturnedWith(t, "get_measurement", None) :
            /\ \A j \in (i + 1)..Len(s) :
                  s[j].op \notin {"measurement_ready", "sleep",
                                  "get_measurement"}
            /\ ret[t] = None
            /\ pc[t] = "idle"

\* Ready at the first check, get_measurement came back empty, cycle over.
C32_Witness ==
    \E t \in RunningTasks :
        /\ ReturnedWith(t, "get_measurement", None) # {}
        /\ Count(calls[t], "sleep") = 0
        /\ Count(calls[t], "measurement_ready") = 1
        /\ pc[t] = "idle"

\* The reads of the flash state in the invocation of t that reported on.
ReadOn(t) ==
    {i \in CallsOf(grab_log[t], "states.get") : grab_log[t][i].res = Some("on")}

\* C33: a _turn_flash_on(True) that issued the turn-on call and returned
\* True has read the flash state as on during its wait; with the budget of
\* FLASH_DELAY_SECONDS spent and no on-state read it returned False.
C33_TrueOnlyIfObservedOn ==
    \A t \in RunningTasks :
        (Count(grab_log[t], "turn_on") > 0 /\ flash_ret[t] # None) =>
            /\ flash_ret[t] = Some(TRUE) => ReadOn(t) # {}
            /\ (/\ ReadOn(t) = {}
                /\ Cardinality(GrabDone(t, "sleep")) = FLASH_DELAY_SECONDS)
                  => flash_ret[t] = Some(FALSE)

NotReady(t) == ReturnedWith(t, "measurement_ready", Some(FALSE))

\* C35: a cycle that has started ends, given that every awaited call
\* returns; the seconds slept in the poll loop of a cycle never exceed 181,
\* and they are 181 exactly when every check of the schedule came back not
\* ready, as in each finished cycle that uploaded and never saw ready.
C35_CycleTerminatesWithin181 ==
    /\ [](\A t \in RunningTasks :
            /\ Slept(calls[t]) <= 181
            /\ (Slept(calls[t]) = 181) <=>
                   (Cardinality(NotReady(t)) = Len(MEASUREMENT_PROCESS_DELAYS))
            /\ (/\ pc[t] = "idle"
                /\ Uploaded(t)
                /\ ReturnedWith(t, "measurement_ready", Some(TRUE)) = {})
                  => Slept(calls[t]) = 181)
    /\ \A t \in Tasks :
          (t \in RunningTasks /\ pc[t] # "idle") ~> (pc[t] = "idle")

\* A cycle that slept through the whole schedule is over.
C35_Witness ==
    \E t \in RunningTasks :
        /\ pc[t] = "idle"
        /\ Slept(calls[t]) = 181
        /\ Count(calls[t], "get_measurement") = 0

C37_LinesAtOffsets ==
    \A t \in RunningTasks :
        buffer[t] # None =>
            LET m == Val(ret[t])
                cfg == cam_config[task_dev[t]]
                l == Val(buffer[t]).lines
                height == m.body_bottom - m.body_top
            IN  /\ Len(l) = 3
                /\ \A i \in 1..3 :
                      /\ l[i].from[1] = m.body_left
                      /\ l[i].to[1] = m.body_right
                      /\ l[i].from[2] = l[i].to[2]
                /\ 10 * (l[1].from[2] - m.body_top) = cfg.max_perc * height
                /\ 10 * (m.body_bottom - l[2].from[2]) = cfg.min_perc * height
                /\ l[3].from[2] = m.float_top
                /\ (/\ m.body_top = 100 /\ m.body_bottom = 500
                    /\ m.float_top = 300
                    /\ cfg.min_perc = 1 /\ cfg.max_perc = 1)
                      => /\ l[1].from[2] = 140
                         /\ l[2].from[2] = 460
                         /\ l[3].from[2] = 300

\* The picture of the gauge from 100 to 500 with offsets of 0.1 is drawn.
C37_Witness ==
    \E t \in RunningTasks :
        /\ buffer[t] # None
        /\ Val(ret[t]).body_top = 100 /\ Val(ret[t]).body_bottom = 500
        /\ Val(ret[t]).float_top = 300
        /\ cam_config[task_dev[t]] = [max_perc |-> 1, min_perc |-> 1]
        /\ Len(Val(buffer[t]).lines) = 3

\* C38: a cycle whose get_measurement returned a measurement, of value 0
\* or more, is a successful one: the measurement is the sensor's last
\* result and the cycle is not counted as failed.
C38_ZeroIsAReading ==
    \A t \in RunningTasks :
        \A i \in CallsOf(calls[t], "get_measurement") :
            (calls[t][i].done /\ calls[t][i].res # None) =>
                /\ last_result[task_dev[t]] = calls[t][i].res
                /\ outcome[t] # "failed"

\* The same for the measurements of a value above 0.
NonZeroIsAReading ==
    \A t \in RunningTasks :
        \A i \in CallsOf(calls[t], "get_measurement") :
            (/\ calls[t][i].done /\ calls[t][i].res # None
             /\ Val(calls[t][i].res).value > 0) =>
                /\ last_result[task_dev[t]] = calls[t][i].res
                /\ outcome[t] # "failed"

\* C39: every get_camconfig and every create_camconfig of a cycle is called
\* with a resolved device id, never with the not-found answer of
\* get_indicam_id.
C39_SyncCallsHaveAnId ==
    \A t \in RunningTasks :
        LET s == calls[t] IN
        /\ \A i \in CallsOf(s, "get_camconfig") : s[i].arg # None
        /\ \A i \in CallsOf(s, "create_camconfig") : s[i].arg[1] # None

\* The create_camconfig calls of all cycles, as <<task, place in its log>>.
Pushes ==
    UNION {{<<t, i>> : i \in CallsOf(calls[t], "create_camconfig")} :
             t \in RunningTasks}

\* C40 as stated: over two overlapping cycles of one processor
\* create_camconfig is called at most once with one and the same local
\* config.
C40_PushedOnceInAll ==
    \A p, q \in Pushes :
        calls[p[1]][p[2]].arg[2] = calls[q[1]][q[2]].arg[2] => p = q

\* C40, amended: each of two overlapping cycles of one processor calls
\* create_camconfig at most once, and only after its own get_camconfig
\* returned a config that differs from the local one.
C40_PushedOncePerCycle ==
    \A t \in RunningTasks :
        /\ Count(calls[t], "create_camconfig") <= 1
        /\ \A i \in CallsOf(calls[t], "create_camconfig") :
              \E j \in Fetched(t) :
                  j < i /\ Val(calls[t][j].res) # calls[t][i].arg[2]

\* Both cycles passed the flag test before either had set the flag, and both
\* pushed the same local config.
C40_Witness ==
    /\ Cardinality(Pushes) = 2
    /\ \A p, q \in Pushes : calls[p[1]][p[2]].arg = calls[q[1]][q[2]].arg
    /\ \E p, q \in Pushes : p[1] # q[1]

====
